---- MODULE Spec2Model ----
(***************************************************************************)
(* Citation validation core of theodore-popyto (lib/components/crv):       *)
(* pattern catalog, citation extractor, bibliography processor and         *)
(* reference validator.                                                    *)
(*                                                                         *)
(* Text is modelled as TLA+ strings, character by character.  Python's re  *)
(* module is modelled by a backtracking matcher (RM) over a small regular  *)
(* expression syntax; every pattern of the source is transcribed into it.  *)
(* Floats are exact rationals <<numerator, denominator>> in lowest terms.  *)
(* Python's None is the value None; a dict is a function whose DOMAIN is   *)
(* the set of keys present; a value that may be missing (a file not yet    *)
(* written, a call not yet made) is a sequence of at most one item.        *)
(***************************************************************************)
EXTENDS Integers, Sequences, FiniteSets, TLC

VARIABLES
    sections,        \* the sections tree: whether it exists, and each file's state and lines
    bib_glob,        \* the bibliography directory's files in the order glob lists them
    ex_stats,        \* CitationExtractor.stats
    ex_citations,    \* CitationExtractor.citations
    ex_last,         \* the last call on the extractor: its file, what it returned and the
                     \* invalid patterns it logged
    ex_seen,         \* history: file name -> the ids its first extraction returned, if any
    bp_entries,      \* BibliographyProcessor.entries
    bp_index,        \* BibliographyProcessor.index
    bp_stats,        \* BibliographyProcessor.stats
    citations_json,  \* generated/reports/crv/data/raw/citations.json, if written
    bibliography_json, \* generated/reports/crv/data/raw/bibliography.json, if written
    v_citations,     \* ReferenceValidator.citations
    v_bibliography,  \* ReferenceValidator.bibliography
    v_index,         \* ReferenceValidator.bibliography_index
    v_results,       \* ReferenceValidator.validation_results
    v_report,        \* the report the last validate_all call returned, if it returned
    v_raised,        \* the exception the validator's last call raised, "" if none
    v_calls,         \* number of validate_all calls made on the validator
    wf_step          \* the outcome of the orchestrator's last step, 'start' before the first

fsVars == <<sections, bib_glob>>
exVars == <<ex_stats, ex_citations, ex_last, ex_seen>>
bpVars == <<bp_entries, bp_index, bp_stats>>
jsonVars == <<citations_json, bibliography_json>>
vVars == <<v_citations, v_bibliography, v_index, v_results, v_report, v_raised, v_calls>>
vars == <<fsVars, exVars, bpVars, jsonVars, vVars, wf_step>>

None == "<None>"

\* d.get(key, default)
Get(d, key, default) == IF key \in DOMAIN d THEN d[key] ELSE default

(***************************************************************************)
(* Characters and Python string methods                                    *)
(***************************************************************************)
UpperSeq == "ABCDEFGHIJKLMNOPQRSTUVWXYZÁÉÍÓÚÑ"
LowerSeq == "abcdefghijklmnopqrstuvwxyzáéíóúñ"
AsciiUpper == {SubSeq(UpperSeq, i, i) : i \in 1..26}
AsciiLower == {SubSeq(LowerSeq, i, i) : i \in 1..26}
Digit == {"0", "1", "2", "3", "4", "5", "6", "7", "8", "9"}
Space == {" ", "\t"}
Accented == {"Á", "É", "Í", "Ó", "Ú", "á", "é", "í", "ó", "ú", "ñ", "Ñ"}

CharAt(s, i) == SubSeq(s, i, i)

\* str.lower() of one character
LowerChar(c) ==
    IF \E i \in 1..Len(UpperSeq) : CharAt(UpperSeq, i) = c
    THEN CharAt(LowerSeq, CHOOSE i \in 1..Len(UpperSeq) : CharAt(UpperSeq, i) = c)
    ELSE c

RECURSIVE ToLower(_)
ToLower(s) ==
    IF Len(s) = 0 THEN ""
    ELSE IF Len(s) = 1 THEN LowerChar(s)
    ELSE ToLower(SubSeq(s, 1, Len(s) \div 2)) \o ToLower(SubSeq(s, Len(s) \div 2 + 1, Len(s)))

\* sub in s
Contains(s, sub) == \E i \in 1..(Len(s) - Len(sub) + 1) : SubSeq(s, i, i + Len(sub) - 1) = sub

EndsWith(s, suf) == Len(s) >= Len(suf) /\ SubSeq(s, Len(s) - Len(suf) + 1, Len(s)) = suf

StartsWith(s, pre) == Len(s) >= Len(pre) /\ SubSeq(s, 1, Len(pre)) = pre

\* str.strip()
Strip(s) ==
    LET keep == {i \in 1..Len(s) : CharAt(s, i) \notin Space}
    IN IF keep = {} THEN ""
       ELSE SubSeq(s, CHOOSE i \in keep : \A j \in keep : i <= j,
                      CHOOSE i \in keep : \A j \in keep : i >= j)

\* Python slice s[a:b] with 0-based bounds already clamped to 0..len(s)
Slice(s, a, b) == SubSeq(s, a + 1, b)

(***************************************************************************)
(* Regular expressions as re compiles them.  RM returns every way the      *)
(* expression matches at a position, as <<next position, groups>>, in the  *)
(* order re's backtracking tries them; the head is the match re reports.   *)
(***************************************************************************)
Cls(S) == [k |-> "cls", cs |-> S]
NCls(S) == [k |-> "ncls", cs |-> S]
Lit(str) == [k |-> "lit", s |-> str]
Cat(rs) == [k |-> "cat", rs |-> rs]
Alt(rs) == [k |-> "alt", rs |-> rs]
Rep(r, lo, hi) == [k |-> "rep", r |-> r, lo |-> lo, hi |-> hi, lazy |-> FALSE]
Lazy(r, lo, hi) == [k |-> "rep", r |-> r, lo |-> lo, hi |-> hi, lazy |-> TRUE]
Star(r) == Rep(r, 0, -1)
Plus(r) == Rep(r, 1, -1)
Opt(r) == Rep(r, 0, 1)
Grp(n, r) == [k |-> "grp", n |-> n, r |-> r]
Bol == [k |-> "bol"]
Eol == [k |-> "eol"]
\* a pattern re.compile rejects with re.error
Uncompilable == [k |-> "error"]

\* the lists of ss joined into one list; ss is made a tuple first, so that each of its
\* items is computed once
RECURSIVE Flatten(_)
Flatten(ss) ==
    LET Joined(list) ==
            IF Len(list) = 0 THEN << >>
            ELSE IF Len(list) = 1 THEN list[1]
            ELSE Flatten(SubSeq(list, 1, Len(list) \div 2))
                 \o Flatten(SubSeq(list, Len(list) \div 2 + 1, Len(list)))
    IN Joined(ss \o << >>)

\* a repeated character class, without recursion: the run of characters it can take
\* and every place it may stop, longest first when greedy, shortest first when lazy
RepClass(r, s, i, c) ==
    LET Taken(j) == (CharAt(s, j) \in r.r.cs) = (r.r.k = "cls")
        Stops(first, last) ==
            IF last < first THEN << >>
            ELSE [k \in 1..(last - first + 1) |->
                     <<(IF r.lazy THEN first + k - 1 ELSE last - k + 1) + 1, c>>]
        LastTaken(limit) ==
            CHOOSE j \in (i - 1)..limit : /\ \A h \in i..j : Taken(h)
                                          /\ j = limit \/ ~Taken(j + 1)
    IN Stops(i - 1 + r.lo,
             LastTaken(IF r.hi = -1 \/ i - 1 + r.hi > Len(s) THEN Len(s) ELSE i - 1 + r.hi))

RECURSIVE RM(_, _, _, _), RCat(_, _, _), RRep(_, _, _, _, _)
RM(r, s, i, c) ==
    LET Grouped(ms) ==
            [j \in 1..Len(ms) |-> <<ms[j][1], [ms[j][2] EXCEPT ![r.n] = <<i, ms[j][1] - 1>>]>>]
    IN CASE r.k = "cls" -> IF i <= Len(s) /\ CharAt(s, i) \in r.cs THEN << <<i + 1, c>> >> ELSE << >>
         [] r.k = "ncls" -> IF i <= Len(s) /\ CharAt(s, i) \notin r.cs THEN << <<i + 1, c>> >>
                            ELSE << >>
         [] r.k = "lit" -> IF i + Len(r.s) - 1 <= Len(s) /\ SubSeq(s, i, i + Len(r.s) - 1) = r.s
                           THEN << <<i + Len(r.s), c>> >> ELSE << >>
         [] r.k = "cat" -> RCat(r.rs, s, << <<i, c>> >>)
         [] r.k = "alt" -> Flatten([a \in 1..Len(r.rs) |-> RM(r.rs[a], s, i, c)])
         [] r.k = "rep" -> IF r.r.k \in {"cls", "ncls"} THEN RepClass(r, s, i, c)
                           ELSE RRep(r, 0, s, i, c)
         [] r.k = "grp" -> Grouped(RM(r.r, s, i, c))
         [] r.k = "bol" -> IF i = 1 THEN << <<i, c>> >> ELSE << >>
         [] r.k = "eol" -> IF i = Len(s) + 1 THEN << <<i, c>> >> ELSE << >>

\* the ways the concatenation rs matches after each of the ways ms its left part matched
RCat(rs, s, ms) ==
    IF rs = << >> \/ ms = << >> THEN ms
    ELSE RCat(Tail(rs), s, Flatten([j \in 1..Len(ms) |-> RM(Head(rs), s, ms[j][1], ms[j][2])]))

\* n iterations are done; a greedy repetition tries one more first, a lazy one stops first
RRep(r, n, s, i, c) ==
    LET Ordered(more, stop) == IF r.lazy THEN stop \o more ELSE more \o stop
        More(ms) == Flatten([j \in 1..Len(ms) |->
                        IF ms[j][1] > i THEN RRep(r, n + 1, s, ms[j][1], ms[j][2]) ELSE << >>])
    IN Ordered(IF r.hi # -1 /\ n >= r.hi THEN << >> ELSE More(RM(r.r, s, i, c)),
               IF n >= r.lo THEN << <<i, c>> >> ELSE << >>)

\* re's match at position i as a list of at most one match object: its span [start, end)
\* in 1-based positions, its text, and its groups as strings (None for an unset group)
MatchAt(re, ngroups, s, i) ==
    LET Object(end, span) ==
            [start |-> i, end |-> end, text |-> SubSeq(s, i, end - 1),
             groups |-> [g \in 1..ngroups |->
                            IF span[g] = <<0, 0>> THEN None ELSE SubSeq(s, span[g][1], span[g][2])]]
        First(ms) == IF ms = << >> THEN << >> ELSE << Object(Head(ms)[1], Head(ms)[2]) >>
    IN First(RM(re, s, i, [g \in 1..ngroups |-> <<0, 0>>]))

\* the match at every position of s that has one, from left to right
AllMatches(re, ngroups, s) ==
    SelectSeq([i \in 1..(Len(s) + 1) |-> MatchAt(re, ngroups, s, i)], LAMBDA m : m # << >>)

\* the first of the matches and, after its end, the first of the rest, and so on
RECURSIVE NonOverlapping(_)
NonOverlapping(found) ==
    IF found = << >> THEN << >>
    ELSE Head(found)
         \o NonOverlapping(SelectSeq(Tail(found), LAMBDA m : m[1].start >= Head(found)[1].end))

\* regex.finditer(s): the non-overlapping matches, left to right
FindIter(re, ngroups, s) == NonOverlapping(AllMatches(re, ngroups, s))

\* re.search(re, s): a list holding the first match, empty when there is none
Search(re, ngroups, s) ==
    LET First(found) == IF found = << >> THEN << >> ELSE found[1]
    IN First(AllMatches(re, ngroups, s))

\* re.split(re, s) for a pattern without groups that matches no empty string
ReSplit(re, s) ==
    LET Parts(ms) ==
            [j \in 1..(Len(ms) + 1) |->
                SubSeq(s, IF j = 1 THEN 1 ELSE ms[j - 1].end,
                          IF j > Len(ms) THEN Len(s) ELSE ms[j].start - 1)]
    IN Parts(FindIter(re, 0, s))

\* sep.join(parts)
RECURSIVE JoinWith(_, _)
JoinWith(parts, sep) ==
    IF Len(parts) = 1 THEN Head(parts) ELSE Head(parts) \o sep \o JoinWith(Tail(parts), sep)

\* re.sub(re, repl, s) for a constant replacement
ReSub(re, repl, s) == JoinWith(ReSplit(re, s), repl)

(***************************************************************************)
(* Floats as exact rationals                                               *)
(***************************************************************************)
RECURSIVE Gcd(_, _)
Gcd(a, b) == IF b = 0 THEN a ELSE Gcd(b, a % b)

Rat(n, d) == IF n = 0 THEN <<0, 1>> ELSE <<n \div Gcd(n, d), d \div Gcd(n, d)>>
RatSub(a, b) == Rat(a[1] * b[2] - b[1] * a[2], a[2] * b[2])
RatGt(a, b) == a[1] * b[2] > b[1] * a[2]
RatMax(a, b) == IF RatGt(b, a) THEN b ELSE a
Zero == <<0, 1>>
One == <<1, 1>>

\* f"{x:.2f}" for 0 <= x < 10: the nearest hundredth, a tie going to the even one
Fixed2(x) ==
    LET Digits(h) == ToString(h \div 100) \o "." \o ToString((h \div 10) % 10) \o ToString(h % 10)
        q == (100 * x[1]) \div x[2]
        r == (100 * x[1]) % x[2]
    IN Digits(IF 2 * r > x[2] \/ (2 * r = x[2] /\ q % 2 = 1) THEN q + 1 ELSE q)

(***************************************************************************)
(* Pattern catalog: CITATION_PATTERNS of citation_patterns.py              *)
(***************************************************************************)
Letter == AsciiUpper \cup AsciiLower
NameCh == Letter \cup Accented \cup {"-", "'"}
Spaces0 == Star(Cls(Space))
Spaces1 == Plus(Cls(Space))
\* [A-Z][A-Za-z...\-\']+(?:\s+[A-Z][A-Za-z...\-\']+)*
NameWord == Cat(<<Cls(AsciiUpper), Plus(Cls(NameCh))>>)
NameRe == Cat(<<NameWord, Star(Cat(<<Spaces1, NameWord>>))>>)
\* [A-Z][A-Za-z...\-\',\s&]+
LooseNameRe == Cat(<<Cls(AsciiUpper), Plus(Cls(NameCh \cup Space \cup {",", "&"}))>>)
\* \d{4}[a-z]?
YearRe == Cat(<<Rep(Cls(Digit), 4, 4), Opt(Cls(AsciiLower))>>)
\* ,?\s*
CommaSp == Cat(<<Opt(Lit(",")), Spaces0>>)
\* \d+(?:-\d+)?
PagesRe == Cat(<<Plus(Cls(Digit)), Opt(Cat(<<Lit("-"), Plus(Cls(Digit))>>))>>)
\* \s+et\s+al\.
EtAlRe == Cat(<<Spaces1, Lit("et"), Spaces1, Lit("al.")>>)

\* the rules in the order extract_from_file walks the catalog:
\* standard, narrative, with_pages, multiple, special
CITATION_PATTERNS ==
  <<
    [name |-> "single_author", type |-> "parenthetical", ngroups |-> 2,
     re |-> Cat(<<Lit("("), Grp(1, NameRe), CommaSp, Grp(2, YearRe), Lit(")")>>)],
    [name |-> "two_authors", type |-> "parenthetical", ngroups |-> 3,
     re |-> Cat(<<Lit("("), Grp(1, NameRe), Spaces0, Cls({"&", "y"}), Spaces0, Grp(2, NameRe),
                  CommaSp, Grp(3, YearRe), Lit(")")>>)],
    [name |-> "et_al", type |-> "parenthetical", ngroups |-> 2,
     re |-> Cat(<<Lit("("), Grp(1, NameRe), EtAlRe, CommaSp, Grp(2, YearRe), Lit(")")>>)],
    [name |-> "narrative_single", type |-> "narrative", ngroups |-> 2,
     re |-> Cat(<<Grp(1, NameRe), Spaces1, Lit("("), Grp(2, YearRe), Lit(")")>>)],
    [name |-> "narrative_two", type |-> "narrative", ngroups |-> 3,
     re |-> Cat(<<Grp(1, NameRe), Spaces1, Cls({"y", "a", "n", "d", "&"}), Spaces1,
                  Grp(2, NameRe), Spaces1, Lit("("), Grp(3, YearRe), Lit(")")>>)],
    [name |-> "narrative_et_al", type |-> "narrative", ngroups |-> 2,
     re |-> Cat(<<Grp(1, NameRe), EtAlRe, Spaces1, Lit("("), Grp(2, YearRe), Lit(")")>>)],
    [name |-> "with_page", type |-> "with_pages", ngroups |-> 3,
     re |-> Cat(<<Lit("("), Grp(1, LooseNameRe), CommaSp, Grp(2, YearRe), CommaSp,
                  Lit("p"), Opt(Lit("p")), Lit("."), Spaces0, Grp(3, PagesRe), Lit(")")>>)],
    [name |-> "with_paragraph", type |-> "with_paragraph", ngroups |-> 3,
     re |-> Cat(<<Lit("("), Grp(1, LooseNameRe), CommaSp, Grp(2, YearRe), CommaSp,
                  Alt(<<Lit("para"), Cat(<<Lit("pár"), Opt(Lit("r"))>>)>>), Lit("."), Spaces0,
                  Grp(3, Plus(Cls(Digit))), Lit(")")>>)],
    [name |-> "multiple_works_same_author", type |-> "multiple_years", ngroups |-> 2,
     re |-> Cat(<<Lit("("), Grp(1, NameRe), CommaSp,
                  Grp(2, Cat(<<YearRe, Plus(Cat(<<Lit(","), Spaces0, YearRe>>))>>)), Lit(")")>>)],
    [name |-> "multiple_citations", type |-> "multiple_citations", ngroups |-> 1,
     re |-> Cat(<<Lit("("),
                  Grp(1, Cat(<<Plus(NCls({";"})), Lit(";"), Spaces0, Plus(NCls({")"}))>>)),
                  Lit(")")>>)],
    [name |-> "quoted_with_citation", type |-> "quoted", ngroups |-> 3,
     re |-> Cat(<<Lit("\""), Plus(NCls({"\""})), Lit("\""), Spaces0,
                  Lit("("), Grp(1, LooseNameRe), CommaSp, Grp(2, YearRe), CommaSp,
                  Lit("p"), Opt(Lit("p")), Lit("."), Spaces0, Grp(3, PagesRe), Lit(")")>>)],
    [name |-> "personal_communication", type |-> "personal_communication", ngroups |-> 2,
     re |-> Cat(<<Lit("("),
                  Grp(1, Cat(<<Cls(AsciiUpper), Lit("."), Spaces0, Cls(AsciiUpper), Plus(Cls(NameCh))>>)),
                  CommaSp,
                  Alt(<<Cat(<<Lit("personal"), Spaces1, Lit("communication")>>),
                        Cat(<<Lit("comunicación"), Spaces1, Lit("personal")>>)>>),
                  CommaSp,
                  Grp(2, Cat(<<Plus(Cls(Letter)), Spaces1, Rep(Cls(Digit), 1, 2), CommaSp,
                               Rep(Cls(Digit), 4, 4)>>)),
                  Lit(")")>>)],
    [name |-> "secondary_source", type |-> "secondary", ngroups |-> 4,
     re |-> Cat(<<Lit("("), Grp(1, NameRe), CommaSp, Grp(2, YearRe), CommaSp,
                  Alt(<<Cat(<<Lit("as"), Spaces1, Lit("cited"), Spaces1, Lit("in")>>),
                        Cat(<<Lit("citado"), Spaces1, Lit("en")>>)>>),
                  Spaces1, Grp(3, NameRe), CommaSp, Grp(4, YearRe), Lit(")")>>)]
  >>

(***************************************************************************)
(* Citation extractor: extract_citations.py                                *)
(***************************************************************************)

\* the non-empty strips of the parts, in order
RECURSIVE StrippedParts(_)
StrippedParts(parts) ==
    IF parts = << >> THEN << >>
    ELSE (IF Strip(Head(parts)) # "" THEN <<Strip(Head(parts))>> ELSE << >>)
         \o StrippedParts(Tail(parts))

\* NFKC and the dash replacement change no character of the alphabet modelled here
Ex_normalize_text(text) == Strip(ReSub(Spaces1, " ", text))

Ex_extract_authors(author_text) ==
    LET separators == << Cat(<<Spaces0, Lit("&"), Spaces0>>),
                         Cat(<<Spaces1, Lit("and"), Spaces1>>),
                         Cat(<<Spaces1, Lit("y"), Spaces1>>),
                         Cat(<<Spaces0, Cls({",", ";"}), Spaces0>>) >>
        \* the text split at EtAlRe, or at the first separator found in it
        Split(t, et_al_found, found) ==
            ReSplit(IF et_al_found THEN EtAlRe
                    ELSE IF found # {} THEN separators[CHOOSE k \in found : \A j \in found : k <= j]
                    ELSE Lit(";"), t)
        Authors(t, et_al_found, any_found, parts) ==
            IF et_al_found THEN << Strip(parts[1]), "et al." >>
            ELSE IF any_found THEN StrippedParts(parts)
            ELSE IF Strip(t) # "" THEN << Strip(t) >>
            ELSE << >>
        Found(t, et_al_found, found) ==
            Authors(t, et_al_found, found # {}, Split(t, et_al_found, found))
        Normal(t) ==
            Found(t, Contains(t, "et al."),
                  {k \in 1..Len(separators) : Search(separators[k], 0, t) # << >>})
    IN Normal(Ex_normalize_text(author_text))

\* (in\s+press|en\s+prensa) with re.IGNORECASE is searched in the lower-cased text
InPressRe ==
    Alt(<<Cat(<<Lit("in"), Spaces1, Lit("press")>>), Cat(<<Lit("en"), Spaces1, Lit("prensa")>>)>>)

Ex_extract_year(year_text) ==
    LET Year(t, m) == IF Search(InPressRe, 0, ToLower(t)) # << >> THEN "in press"
                      ELSE IF m # << >> THEN m[1].groups[1]
                      ELSE t
    IN Year(Strip(year_text), Search(Grp(1, YearRe), 1, Strip(year_text)))

_extract_pages(page_text) ==
    LET Pages(t, m) == IF m # << >> THEN m[1].groups[1] ELSE t
        Normal(t) == Pages(t, Search(Grp(1, PagesRe), 1, t))
    IN IF page_text = "" THEN None ELSE Normal(Ex_normalize_text(page_text))

\* hashlib.md5(content).hexdigest()[:12]: a digest, taken to be different for different content
Md5Prefix(content) == "md5:" \o content

_generate_citation_id(text, location) == Md5Prefix(text \o "_" \o location)

\* one sub-citation of a multiple_citations match, as a list of at most one item
SubCitation(cit) ==
    LET Item(parts) ==
            IF parts = << >> THEN << >>
            ELSE << [authors |-> Ex_extract_authors(parts[1].groups[1]),
                     year |-> Ex_extract_year(parts[1].groups[2])] >>
    IN Item(MatchAt(Cat(<<Grp(1, Plus(NCls({","}))), Lit(","), Spaces0, Grp(2, YearRe)>>),
                    2, Strip(cit), 1))

\* the normalized dict _parse_citation builds.  Every branch that reads authors reads
\* them from the first group; the years it reads are the second group's and, for a
\* narrative pair or a secondary source, the last group's.
Normalized(raw_text, pattern_info, g) ==
    LET citation_type == pattern_info.type
        n == Len(g)
        pair == /\ ~Contains(pattern_info.name, "et_al")
                /\ \/ Contains(pattern_info.name, "two")
                   \/ Contains(raw_text, "&")
                   \/ Contains(raw_text, " y ")
                /\ citation_type = "narrative"
                /\ n >= 3
        Multiple(citations) ==
            [multiple |-> Flatten([j \in 1..Len(citations) |-> SubCitation(citations[j])])]
        Dict(authors, year, last_year) ==
            IF citation_type \in {"parenthetical", "narrative"}
            THEN IF pair THEN [authors |-> <<g[1], g[2]>>, year |-> last_year]
                 ELSE [authors |-> authors, year |-> year]
            ELSE IF citation_type = "with_pages"
            THEN [authors |-> authors, year |-> year,
                  pages |-> _extract_pages(IF n > 2 THEN g[3] ELSE "")]
            ELSE IF citation_type = "multiple_citations"
            THEN Multiple(ReSplit(Cat(<<Lit(";"), Spaces0>>), g[1]))
            ELSE IF citation_type = "secondary"
            THEN [original_author |-> g[1], original_year |-> year,
                  cited_in_author |-> g[3], cited_in_year |-> last_year]
            ELSE (IF n > 0 THEN [authors |-> authors] ELSE << >>)
                 @@ (IF n > 1 THEN [year |-> year] ELSE << >>)
                 @@ (IF n > 2 THEN [additional |-> SubSeq(g, 3, n)] ELSE << >>)
    IN Dict(Ex_extract_authors(g[1]),
            Ex_extract_year(IF n > 1 THEN g[2] ELSE ""),
            Ex_extract_year(IF pair THEN g[3] ELSE g[4]))

\* bool(d.get(key)) for a key holding a string or a list
Truthy(d, key) == key \in DOMAIN d /\ d[key] # (IF key \in {"authors", "multiple"} THEN << >> ELSE "")

\* a confidence that drops 0.3 for missing authors whatever the sub-citations
ConfidenceAuthorsOnly(normalized) ==
    RatMax(<<1, 10>>,
           RatSub(IF ~Truthy(normalized, "year") THEN <<7, 10>> ELSE One,
                  IF ~Truthy(normalized, "authors") THEN <<3, 10>> ELSE Zero))

Confidence(normalized) ==
    LET c0 == One
        c1 == IF ~Truthy(normalized, "year") THEN RatSub(c0, <<3, 10>>) ELSE c0
        c2 == IF ~Truthy(normalized, "authors") /\ ~Truthy(normalized, "multiple")
              THEN RatSub(c1, <<3, 10>>) ELSE c1
    IN RatMax(<<1, 10>>, c2)

_parse_citation(raw_text, pattern_info, match_groups) ==
    LET Parsed(normalized) ==
            [id |-> Md5Prefix(""), raw_text |-> raw_text, normalized |-> normalized,
             location |-> << >>, type |-> pattern_info.type,
             confidence |-> Confidence(normalized)]
    IN Parsed(Normalized(raw_text, pattern_info, match_groups))

\* a citation whose id is numbered from the extractor's running count
MatchCitationNumbered(filepath, line_num, line, pattern_info, m) ==
    [_parse_citation(m.text, pattern_info, m.groups) EXCEPT
        !.location = [file |-> filepath, line |-> line_num, column |-> (m.start - 1) + 1,
                      context |-> line],
        !.id = _generate_citation_id(m.text, ToString(ex_stats.citations_found))]

\* the citation extract_from_file makes of one match, with its location and id set
MatchCitation(filepath, line_num, line, pattern_info, m) ==
    LET start == IF m.start - 1 - 50 > 0 THEN m.start - 1 - 50 ELSE 0
        end == IF m.end - 1 + 50 < Len(line) THEN m.end - 1 + 50 ELSE Len(line)
        citation == _parse_citation(m.text, pattern_info, m.groups)
    IN [citation EXCEPT
          !.location = [file |-> filepath, line |-> line_num, column |-> (m.start - 1) + 1,
                        context |-> Slice(line, start, end)],
          !.id = _generate_citation_id(m.text,
                    filepath \o ":" \o ToString(line_num) \o ":" \o ToString(m.start - 1))]

\* every match in the order of the loops: by rule, then by line, then left to right
RuleCitations(filepath, lines, pattern_info) ==
    LET OfLine(ln, ms) ==
            [j \in 1..Len(ms) |-> MatchCitation(filepath, ln, lines[ln], pattern_info, ms[j])]
    IN IF pattern_info.re = Uncompilable THEN << >>
       ELSE Flatten([ln \in 1..Len(lines) |->
                        OfLine(ln, FindIter(pattern_info.re, pattern_info.ngroups, lines[ln]))])

\* an extraction that gives up the rules from the first invalid one on
PatternCitationsStopAtInvalid(filepath, lines, patterns) ==
    LET Valid(k) == \A r \in 1..k : patterns[r].re # Uncompilable
    IN Flatten([r \in 1..Len(patterns) |->
                   IF Valid(r) THEN RuleCitations(filepath, lines, patterns[r]) ELSE << >>])

\* every match of every rule of self.patterns, in the order of the rules
PatternCitations(filepath, lines, patterns) ==
    Flatten([r \in 1..Len(patterns) |-> RuleCitations(filepath, lines, patterns[r])])

\* the matches with the catalog as it is shipped
AllCitations(filepath, lines) == PatternCitations(filepath, lines, CITATION_PATTERNS)

IsDuplicate(file_citations, citation) ==
    \E j \in 1..Len(file_citations) :
        /\ file_citations[j].raw_text = citation.raw_text
        /\ file_citations[j].location.line = citation.location.line
        /\ file_citations[j].location.column = citation.location.column

\* file_citations with every match kept
FileCitationsKeepAll(all, k) == SubSeq(all, 1, k)

\* the duplicate check of extract_from_file: file_citations after the first k matches
RECURSIVE FileCitations(_, _)
FileCitations(all, k) ==
    IF k = 0 THEN << >>
    ELSE LET before == FileCitations(all, k - 1)
         IN IF IsDuplicate(before, all[k]) THEN before ELSE Append(before, all[k])

\* dict d with d[key] = d.get(key, 0) + 1
Incremented(d, key) ==
    IF key \in DOMAIN d THEN [d EXCEPT ![key] = @ + 1] ELSE d @@ (key :> 1)

RECURSIVE CountedByType(_, _)
CountedByType(by_type, cits) ==
    IF cits = << >> THEN by_type
    ELSE CountedByType(Incremented(by_type, Head(cits).type), Tail(cits))

\* what extract_from_file returns for a file, the extractor holding patterns
extract_from_file(patterns, filepath, file) ==
    LET Kept(all) == FileCitations(all, Len(all))
    IN IF ~file.exists \/ ~file.readable THEN << >>
       ELSE Kept(PatternCitations(filepath, file.lines, patterns))

\* what it returns with the catalog as it is shipped
ExtractResult(filepath, file) == extract_from_file(CITATION_PATTERNS, filepath, file)

\* the stats after extract_from_file returned file_citations for a file
ExtractStats(stats, file, file_citations) ==
    IF ~file.exists \/ ~file.readable THEN stats
    ELSE [files_processed |-> stats.files_processed + 1,
          citations_found |-> stats.citations_found + Len(file_citations),
          citations_by_type |-> CountedByType(stats.citations_by_type, file_citations)]

(***************************************************************************)
(* Bibliography processor: process_bibliography.py                         *)
(***************************************************************************)
AnyChar == NCls({})
\* \(\d{4}[a-z]?\)
ParenYearRe == Cat(<<Lit("("), YearRe, Lit(")")>>)

\* str.rstrip('.')
RECURSIVE RStripDot(_)
RStripDot(s) == IF EndsWith(s, ".") THEN RStripDot(SubSeq(s, 1, Len(s) - 1)) ELSE s

\* NFKC and the dash replacement change no character of the alphabet modelled here
Bp_normalize_text(text) ==
    Strip(ReSub(Cls({"_", "*"}), "", ReSub(Spaces1, " ", text)))

\* one author of the fallback branch of _extract_authors, as a list of at most one item
SplitAuthor(part) ==
    LET Author(sep) ==
            IF sep # << >>
            THEN << [last_name |-> SubSeq(part, 1, sep[1].start - 1),
                     initials |-> SubSeq(part, sep[1].end, Len(part)), full |-> part] >>
            ELSE IF part # "" THEN << [last_name |-> part, initials |-> "", full |-> part] >>
            ELSE << >>
    IN Author(Search(Lit(", "), 0, part))

Bp_extract_authors(author_text) ==
    LET ch == Cls(Letter \cup Accented \cup {"-", "'"})
        author_pattern ==
            Cat(<<Grp(1, Cat(<<Plus(ch), Star(Cat(<<Spaces1, Plus(ch)>>))>>)), Lit(","), Spaces0,
                  Grp(2, Cat(<<Cls(AsciiUpper),
                               Star(Cat(<<Lit("."), Spaces0, Cls(AsciiUpper), Opt(Lit("."))>>))>>))>>)
        Fallback(parts) == Flatten([j \in 1..Len(parts) |-> SplitAuthor(Strip(parts[j]))])
        Authors(t, matches) ==
            IF matches # << >>
            THEN [j \in 1..Len(matches) |->
                     [last_name |-> matches[j].groups[1], initials |-> matches[j].groups[2],
                      full |-> matches[j].groups[1] \o ", " \o matches[j].groups[2]]]
            ELSE Fallback(ReSplit(Cat(<<Spaces0, Lit("&"), Spaces0>>), t))
        Normal(t) == Authors(t, FindIter(author_pattern, 2, t))
    IN Normal(ReSub(Cat(<<Lit(","), Spaces0, Cls({"&", "y"}), Spaces0>>), " & ",
                    Bp_normalize_text(author_text)))

Bp_extract_year(entry_text) ==
    LET Year(m1, m2) == IF m1 # << >> THEN m1[1].groups[1]
                        ELSE IF m2 # << >> THEN m2[1].groups[1]
                        ELSE None
    IN Year(Search(Cat(<<Lit("("), Grp(1, YearRe), Lit(")")>>), 1, entry_text),
            Search(Cat(<<Lit(","), Spaces0, Grp(1, YearRe), Cls({",", "."})>>), 1, entry_text))

_extract_title(entry_text) ==
    LET Title(remaining, m1, m2) ==
            Bp_normalize_text(IF m1 # << >> THEN m1[1].groups[1]
                              ELSE IF m2 # << >> THEN m2[1].groups[1]
                              ELSE ReSplit(Lit("."), remaining)[1])
        Remaining(remaining) ==
            Title(remaining,
                  MatchAt(Cat(<<Bol, Grp(1, Lazy(NCls({"."}), 1, -1)), Lit("."),
                                Alt(<<Cat(<<Spaces1, Cls(AsciiUpper \cup {"_"})>>),
                                      Cat(<<Spaces0, Eol>>)>>)>>), 1, remaining, 1),
                  MatchAt(Cat(<<Bol, Lit("_"), Grp(1, Plus(NCls({"_"}))), Lit("_")>>),
                          1, remaining, 1))
        After(text_after_year) ==
            IF Len(text_after_year) > 1 THEN Remaining(text_after_year[2]) ELSE None
    IN After(ReSplit(Cat(<<ParenYearRe, Opt(Lit(".")), Spaces0>>), entry_text))

_detect_entry_type(entry_text) ==
    LET entry_lower == ToLower(entry_text)
        digits == Plus(Cls(Digit))
        issue == Cat(<<Lit("("), digits, Lit(")")>>)
    IN IF Contains(entry_lower, "[doctoral dissertation]") \/ Contains(entry_lower, "[tesis doctoral]")
       THEN "dissertation"
       ELSE IF Contains(entry_lower, "[master") \/ Contains(entry_lower, "[tesis de")
       THEN "thesis"
       ELSE IF Search(Cat(<<issue, Lit(","), Spaces0, digits, Lit("-"), digits>>), 0, entry_text) # << >>
       THEN "journal_article"
       ELSE IF Search(Cat(<<Lit(","), Spaces0, digits, issue>>), 0, entry_text) # << >>
       THEN "journal_article"
       ELSE IF Contains(entry_text, " In ") \/ Contains(entry_text, " En ")
       THEN "book_chapter"
       ELSE IF Contains(entry_lower, "retrieved from") \/ Contains(entry_lower, "recuperado de")
       THEN "web_resource"
       ELSE IF Search(Cat(<<Lit("_"), Plus(NCls({"_"})), Lit("_")>>), 0, entry_text) # << >>
               /\ Search(issue, 0, entry_text) = << >>
       THEN "book"
       ELSE "unknown"

\* the 'authors' item the typed parsers set: re.match(r'^([^(]+)\s*\(', entry_text)
LeadingAuthors(entry_text) ==
    LET Item(author_match) ==
            IF author_match # << >>
            THEN [authors |-> Bp_extract_authors(author_match[1].groups[1])]
            ELSE << >>
    IN Item(MatchAt(Cat(<<Bol, Grp(1, Plus(NCls({"("}))), Spaces0, Lit("(")>>),
                    1, entry_text, 1))

_parse_journal_article(entry_text) ==
    LET digits == Plus(Cls(Digit))
        Journal(m) ==
            IF m # << >>
            THEN [journal |-> Bp_normalize_text(m[1].groups[1]), volume |-> m[1].groups[2],
                  issue |-> IF m[1].groups[3] # None THEN m[1].groups[3] ELSE "",
                  pages |-> m[1].groups[4]]
            ELSE << >>
        Doi(doi_match) ==
            IF doi_match # << >>
            THEN [doi |-> RStripDot(SubSeq(entry_text,
                                           doi_match[1].end - Len(doi_match[1].groups[1]),
                                           doi_match[1].end - 1))]
            ELSE << >>
    IN LeadingAuthors(entry_text)
       @@ [year |-> Bp_extract_year(entry_text), title |-> _extract_title(entry_text)]
       @@ Journal(Search(Cat(<<Lit("."), Grp(1, Plus(NCls({","}))), Lit(","), Spaces0,
                               Grp(2, digits), Opt(Cat(<<Lit("("), Grp(3, digits), Lit(")")>>)),
                               Lit(","), Spaces0, Grp(4, Cat(<<digits, Lit("-"), digits>>))>>),
                         4, entry_text))
       \* (?:doi:|https://doi.org/)([^\s]+) with re.IGNORECASE: located in the lower-cased text
       @@ Doi(Search(Cat(<<Alt(<<Lit("doi:"), Cat(<<Lit("https://doi"), AnyChar, Lit("org/")>>)>>),
                           Grp(1, Plus(NCls(Space)))>>), 1, ToLower(entry_text)))

_parse_book(entry_text) ==
    LET Publisher(title, after_title) ==
            [year |-> Bp_extract_year(entry_text), title |-> title]
            @@ (IF title # None /\ title # "" /\ after_title # ""
                THEN [publisher |-> Bp_normalize_text(ReSplit(Lit("."), after_title)[1])]
                ELSE << >>)
        Last(pieces) == Strip(ReSub(Cls({"_", "."}), "", pieces[Len(pieces)]))
        Titled(title) == Publisher(title, Last(ReSplit(Lit(title), entry_text)))
        Title(title_match) ==
            Titled(IF title_match # << >> THEN Bp_normalize_text(title_match[1].groups[1])
                   ELSE _extract_title(entry_text))
    IN LeadingAuthors(entry_text)
       @@ Title(Search(Cat(<<ParenYearRe, Opt(Lit(".")), Spaces0, Lit("_"),
                             Grp(1, Plus(NCls({"_"}))), Lit("_")>>), 1, entry_text))

_parse_web_resource(entry_text) ==
    LET Year(year_match) == IF year_match # << >> THEN [year |-> year_match[1].text] ELSE << >>
        Date(date_match) ==
            IF date_match # << >>
            THEN [date |-> date_match[1].groups[1]]
                 @@ Year(Search(Rep(Cls(Digit), 4, 4), 0, date_match[1].groups[1]))
            ELSE << >>
        Url(url_match, any_url) ==
            IF url_match # << >>
            THEN [url |-> Strip(SubSeq(entry_text, url_match[1].end - Len(url_match[1].groups[1]),
                                       url_match[1].end - 1))]
            ELSE IF any_url # << >> THEN [url |-> RStripDot(any_url[1].text)]
            ELSE << >>
    IN LeadingAuthors(entry_text)
       @@ Date(Search(Cat(<<Lit("("), Grp(1, Plus(NCls({")"}))), Lit(")")>>), 1, entry_text))
       @@ [title |-> _extract_title(entry_text)]
       \* (?:Retrieved from|Recuperado de)\s+(.+)$ with re.IGNORECASE
       @@ Url(Search(Cat(<<Alt(<<Lit("retrieved from"), Lit("recuperado de")>>), Spaces1,
                           Grp(1, Plus(AnyChar)), Eol>>), 1, ToLower(entry_text)),
              Search(Cat(<<Lit("http"), Opt(Lit("s")), Lit("://"), Plus(NCls(Space))>>),
                     0, entry_text))

_generate_entry_id(text, line_num) == Md5Prefix(text \o "_" \o ToString(line_num))

\* a status that does not require the authors
ValidationStatusAuthorsOptional(no_authors, no_year, no_title, no_period) ==
    IF no_year \/ no_title THEN "invalid"
    ELSE IF no_period THEN "warning"
    ELSE "valid"

\* a status that does not look at the final period
ValidationStatusAnyEnding(no_authors, no_year, no_title, no_period) ==
    IF no_authors \/ no_year \/ no_title THEN "invalid" ELSE "valid"

\* validation_status as the checks of _parse_entry leave it: a missing required field
\* makes the entry invalid, and a missing final period demotes a valid entry to warning
ValidationStatus(no_authors, no_year, no_title, no_period) ==
    IF no_authors \/ no_year \/ no_title THEN "invalid"
    ELSE IF no_period THEN "warning"
    ELSE "valid"

\* fault = 0: no parser raises.  fault = k > 0: an exception is raised inside the typed
\* parser, or, on the generic path, by the k-th of its three extraction calls
_parse_entry(entry_text0, line_number, fault) ==
    LET Checked(entry_text, entry_type, parsed, no_authors, no_year, no_title, no_period) ==
            [id |-> _generate_entry_id(entry_text, line_number), raw_text |-> entry_text,
             line_number |-> line_number, parsed |-> parsed, type |-> entry_type,
             validation_status |-> ValidationStatus(no_authors, no_year, no_title, no_period),
             errors |-> (IF fault > 0 THEN <<"Parsing error: fault">> ELSE << >>)
                        \o (IF no_authors THEN <<"Missing authors">> ELSE << >>)
                        \o (IF no_year THEN <<"Missing publication year">> ELSE << >>)
                        \o (IF no_title THEN <<"Missing title">> ELSE << >>)
                        \o (IF no_period THEN <<"Entry should end with a period">> ELSE << >>)]
        Parsed(entry_text, entry_type, parsed) ==
            Checked(entry_text, entry_type, parsed,
                    ~("authors" \in DOMAIN parsed /\ parsed.authors # << >>),
                    ~("year" \in DOMAIN parsed /\ parsed.year \notin {None, ""}),
                    ~("title" \in DOMAIN parsed /\ parsed.title \notin {None, ""}),
                    ~EndsWith(entry_text, "."))
        Typed(entry_text, entry_type) ==
            Parsed(entry_text, entry_type,
                IF entry_type \in {"journal_article", "book", "web_resource"}
                THEN IF fault > 0 THEN << >>
                     ELSE IF entry_type = "journal_article" THEN _parse_journal_article(entry_text)
                     ELSE IF entry_type = "book" THEN _parse_book(entry_text)
                     ELSE _parse_web_resource(entry_text)
                ELSE (IF fault \in {0, 2, 3}
                      THEN [authors |-> IF Contains(entry_text, "(")
                                        THEN Bp_extract_authors(ReSplit(Lit("("), entry_text)[1])
                                        ELSE << >>]
                      ELSE << >>)
                     @@ (IF fault \in {0, 3} THEN [year |-> Bp_extract_year(entry_text)] ELSE << >>)
                     @@ (IF fault = 0 THEN [title |-> _extract_title(entry_text)] ELSE << >>))
        Stripped(entry_text) == Typed(entry_text, _detect_entry_type(entry_text))
    IN Stripped(Strip(entry_text0))

\* a load that gives up the file at the line whose parser raises
FileEntriesStopAtFault(file, fault_line, fault) ==
    LET OfLine(line_num, line) ==
            IF line = "" \/ StartsWith(line, "#") \/ (fault > 0 /\ line_num >= fault_line) THEN << >>
            ELSE << _parse_entry(line, line_num, 0) >>
    IN IF ~file.readable THEN << >>
       ELSE Flatten([line_num \in 1..Len(file.lines) |->
                        OfLine(line_num, Strip(file.lines[line_num]))])

\* the entries load_and_parse makes of one file; line fault_line raises as _parse_entry's
\* fault says (fault_line = 0: no line does)
FileEntries(file, fault_line, fault) ==
    LET OfLine(line_num, line) ==
            IF line = "" \/ StartsWith(line, "#") THEN << >>
            ELSE << _parse_entry(line, line_num, IF line_num = fault_line THEN fault ELSE 0) >>
    IN IF ~file.readable THEN << >>
       ELSE Flatten([line_num \in 1..Len(file.lines) |->
                        OfLine(line_num, Strip(file.lines[line_num]))])

\* load_and_parse: whether it raised FileNotFoundError, all_entries, and the stats after it
load_and_parse(stats, bibliography_files, fault_line, fault) ==
    LET Counted(all_entries, valid) ==
            [raised |-> FALSE, entries |-> all_entries,
             stats |-> [total_entries |-> stats.total_entries + Len(all_entries),
                        valid_entries |-> stats.valid_entries + valid,
                        invalid_entries |-> stats.invalid_entries + (Len(all_entries) - valid),
                        entries_by_type |-> CountedByType(stats.entries_by_type, all_entries)]]
        Parsed(all_entries) ==
            Counted(all_entries,
                    Len(SelectSeq(all_entries, LAMBDA entry : entry.validation_status = "valid")))
    IN IF bibliography_files = << >>
       THEN [raised |-> TRUE, entries |-> << >>, stats |-> stats]
       ELSE Parsed(Flatten([f \in 1..Len(bibliography_files) |->
                               FileEntries(bibliography_files[f], fault_line, fault)]))

\* index[key].append(entry), the list created when the key is new
Appended(index, key, entry) ==
    (key :> (IF key \in DOMAIN index THEN Append(index[key], entry) ELSE <<entry>>)) @@ index

\* the index _build_index leaves after the first k entries
RECURSIVE _build_index(_, _)
_build_index(entries, k) ==
    IF k = 0 THEN [by_year |-> << >>, by_author |-> << >>, by_author_year |-> << >>]
    ELSE LET entry == entries[k]
             before == _build_index(entries, k - 1)
             year == Get(entry.parsed, "year", None)
             has_year == year \notin {None, ""}
             authors == Get(entry.parsed, "authors", << >>)
             last_names == SelectSeq([j \in 1..Len(authors) |-> Get(authors[j], "last_name", "")],
                                     LAMBDA last_name : last_name # "")
             RECURSIVE AddAuthors(_, _)
             AddAuthors(index, names) ==
                 IF names = << >> THEN index
                 ELSE AddAuthors(
                        [index EXCEPT
                           !.by_author = Appended(@, Head(names), entry),
                           !.by_author_year =
                               IF has_year THEN Appended(@, Head(names) \o "_" \o year, entry)
                               ELSE @],
                        Tail(names))
         IN AddAuthors([before EXCEPT !.by_year = IF has_year THEN Appended(@, year, entry) ELSE @],
                       last_names)

(***************************************************************************)
(* Reference validator: validate_references.py                             *)
(***************************************************************************)

\* NFKC and the dash replacement change no character of the alphabet modelled here
V_normalize_text(text) == ToLower(Strip(ReSub(Spaces1, " ", text)))

\* length of the common run of a from i and b from j, inside a[..ahi] and b[..bhi]
RECURSIVE CommonRun(_, _, _, _, _, _)
CommonRun(a, i, ahi, b, j, bhi) ==
    IF i <= ahi /\ j <= bhi /\ CharAt(a, i) = CharAt(b, j)
    THEN 1 + CommonRun(a, i + 1, ahi, b, j + 1, bhi) ELSE 0

\* SequenceMatcher.find_longest_match on a[alo..ahi], b[blo..bhi]: the longest block, the
\* earliest in a and then the earliest in b among the longest
LongestMatch(a, alo, ahi, b, blo, bhi) ==
    LET blocks == {<<i, j, CommonRun(a, i, ahi, b, j, bhi)>> : i \in alo..ahi, j \in blo..bhi}
        better(x, y) == \/ x[3] > y[3]
                        \/ x[3] = y[3] /\ x[1] < y[1]
                        \/ x[3] = y[3] /\ x[1] = y[1] /\ x[2] <= y[2]
    IN CHOOSE x \in blocks : \A y \in blocks : better(x, y)

\* the total size of SequenceMatcher.get_matching_blocks
RECURSIVE MatchedSize(_, _, _, _, _, _)
MatchedSize(a, alo, ahi, b, blo, bhi) ==
    IF alo > ahi \/ blo > bhi THEN 0
    ELSE LET m == LongestMatch(a, alo, ahi, b, blo, bhi)
         IN IF m[3] = 0 THEN 0
            ELSE MatchedSize(a, alo, m[1] - 1, b, blo, m[2] - 1) + m[3]
                 + MatchedSize(a, m[1] + m[3], ahi, b, m[2] + m[3], bhi)

\* SequenceMatcher(None, a, b).ratio()
Ratio(a, b) ==
    IF Len(a) + Len(b) = 0 THEN One
    ELSE Rat(2 * MatchedSize(a, 1, Len(a), b, 1, Len(b)), Len(a) + Len(b))

_calculate_similarity(text1, text2) == Ratio(V_normalize_text(text1), V_normalize_text(text2))

_fuzzy_match_authors(citation_authors, bib_authors) ==
    LET Norms(names) == [j \in 1..Len(names) |-> V_normalize_text(names[j])]
        has_et_al == \E j \in 1..Len(citation_authors) :
                        Contains(ToLower(citation_authors[j]), "et al")
        \* best_match of one citation author: the largest similarity of its row, from 0
        Max(similarities) == CHOOSE x \in similarities : \A y \in similarities : ~RatGt(y, x)
        Best(row) == Max({row[b] : b \in 1..Len(row)} \cup {Zero})
        Score(similarity) ==
            IF has_et_al THEN similarity[1][1]
            ELSE Rat(Cardinality({c \in 1..Len(similarity) : RatGt(Best(similarity[c]), <<4, 5>>)}),
                     Len(similarity))
        Compared(cit_authors_norm, bib_authors_norm) ==
            IF cit_authors_norm = << >> \/ bib_authors_norm = << >> THEN Zero
            ELSE Score([c \in 1..Len(cit_authors_norm) |->
                           [b \in 1..Len(bib_authors_norm) |->
                               _calculate_similarity(cit_authors_norm[c], bib_authors_norm[b])]])
    IN IF citation_authors = << >> \/ bib_authors = << >> THEN Zero
       ELSE Compared(Norms(SelectSeq(citation_authors, LAMBDA a : a # "et al.")),
                     Norms([j \in 1..Len(bib_authors) |-> Get(bib_authors[j], "last_name", "")]))

\* a format check that takes every '&' of a narrative citation for an issue
ValidateCitationFormatAnyAmpersand(citation) ==
    LET raw_text == Get(citation, "raw_text", "")
        citation_type == Get(citation, "type", "")
        parentheses == Cat(<<Bol, Lit("("), Plus(NCls({")"})), Lit(")"), Eol>>)
        page_format == Cat(<<Lit("p"), Opt(Lit("p")), Lit("."), Spaces0, Plus(Cls(Digit))>>)
        Status(issues) == <<IF Len(issues) = 0 THEN "valid"
                            ELSE IF Len(issues) <= 2 THEN "warning"
                            ELSE "invalid", issues>>
        Issues(year) ==
            (IF citation_type = "parenthetical" /\ MatchAt(parentheses, 0, raw_text, 1) = << >>
             THEN <<"Parenthetical citation missing proper parentheses">> ELSE << >>)
            \o (IF citation_type = "parenthetical" /\ Contains(raw_text, " and ")
                THEN <<"Use '&' instead of 'and' in parenthetical citations">> ELSE << >>)
            \o (IF citation_type = "narrative" /\ Contains(raw_text, "&")
                THEN <<"Use 'and' instead of '&' in narrative citations">> ELSE << >>)
            \o (IF year # "" /\ MatchAt(YearRe, 0, year, 1) = << >> /\ year # "in press"
                THEN <<"Invalid year format: " \o year>> ELSE << >>)
            \o (IF Contains(ToLower(raw_text), "et al") /\ ~Contains(raw_text, "et al.")
                THEN <<"'et al.' should include a period">> ELSE << >>)
            \o (IF (Contains(raw_text, "p.") \/ Contains(raw_text, "pp."))
                   /\ Search(page_format, 0, raw_text) = << >>
                THEN <<"Page numbers should follow format: p. # or pp. #-#">> ELSE << >>)
    IN Status(Issues(Get(Get(citation, "normalized", << >>), "year", "")))

validate_citation_format(citation) ==
    LET raw_text == Get(citation, "raw_text", "")
        citation_type == Get(citation, "type", "")
        parentheses == Cat(<<Bol, Lit("("), Plus(NCls({")"})), Lit(")"), Eol>>)
        page_format == Cat(<<Lit("p"), Opt(Lit("p")), Lit("."), Spaces0, Plus(Cls(Digit))>>)
        Status(issues) == <<IF Len(issues) = 0 THEN "valid"
                            ELSE IF Len(issues) <= 2 THEN "warning"
                            ELSE "invalid", issues>>
        Issues(year) ==
            (IF citation_type = "parenthetical" /\ MatchAt(parentheses, 0, raw_text, 1) = << >>
             THEN <<"Parenthetical citation missing proper parentheses">> ELSE << >>)
            \o (IF citation_type = "parenthetical" /\ Contains(raw_text, " and ")
                THEN <<"Use '&' instead of 'and' in parenthetical citations">> ELSE << >>)
            \o (IF citation_type = "narrative" /\ Contains(raw_text, "&") /\ ~Contains(raw_text, "(")
                THEN <<"Use 'and' instead of '&' in narrative citations">> ELSE << >>)
            \o (IF year # "" /\ MatchAt(YearRe, 0, year, 1) = << >> /\ year # "in press"
                THEN <<"Invalid year format: " \o year>> ELSE << >>)
            \o (IF Contains(ToLower(raw_text), "et al") /\ ~Contains(raw_text, "et al.")
                THEN <<"'et al.' should include a period">> ELSE << >>)
            \o (IF (Contains(raw_text, "p.") \/ Contains(raw_text, "pp."))
                   /\ Search(page_format, 0, raw_text) = << >>
                THEN <<"Page numbers should follow format: p. # or pp. #-#">> ELSE << >>)
    IN Status(Issues(Get(Get(citation, "normalized", << >>), "year", "")))

validate_bibliography_format(entry) ==
    LET raw_text == Get(entry, "raw_text", "")
        entry_type == Get(entry, "type", "")
        Status(issues, existing_status, existing_errors) ==
            IF existing_status = "invalid" \/ Len(existing_errors) > 0
            THEN <<"invalid", issues \o existing_errors>>
            ELSE IF Len(issues) > 0 THEN <<"warning", issues>>
            ELSE <<"valid", issues>>
    IN Status((IF ~EndsWith(raw_text, ".")
               THEN <<"Bibliography entry should end with a period">> ELSE << >>)
              \o (IF Search(ParenYearRe, 0, raw_text) = << >>
                  THEN <<"Year should be in parentheses: (YYYY)">> ELSE << >>)
              \* entry_type.replace('_', ' ').title() of the two types tested
              \o (IF entry_type \in {"book", "journal_article"} /\ ~Contains(raw_text, "_")
                  THEN <<(IF entry_type = "book" THEN "Book" ELSE "Journal Article")
                         \o " titles should be italicized">>
                  ELSE << >>),
              Get(entry, "validation_status", "valid"), Get(entry, "errors", << >>))

\* a search that finds no entry
FindNoMatch(index, bibliography, authors, year) == <<None, Zero>>

\* the loop body shared by both passes of _find_single_match: <<best_match, best_confidence>>
\* after the first k candidate entries; a candidate must beat the best so far and the floor
RECURSIVE BestCandidate(_, _, _, _)
BestCandidate(candidates, authors, floor, k) ==
    LET Better(before, confidence) ==
            IF RatGt(confidence, before[2]) /\ RatGt(confidence, floor)
            THEN <<candidates[k].id, confidence>>
            ELSE before
    IN IF k = 0 THEN <<None, Zero>>
       ELSE Better(BestCandidate(candidates, authors, floor, k - 1),
                   _fuzzy_match_authors(authors, Get(Get(candidates[k], "parsed", << >>),
                                                     "authors", << >>)))

_find_single_match(index, bibliography, authors, year) ==
    LET Entries(key) == IF key \in DOMAIN index THEN index[key] ELSE << >>
        keyed == Flatten([k \in 1..Len(authors) |->
                    IF authors[k] = "et al." THEN << >>
                    ELSE Entries(V_normalize_text(authors[k]) \o "_" \o year)])
        same_year == SelectSeq(bibliography,
                               LAMBDA entry : Get(Get(entry, "parsed", << >>), "year", "") = year)
        \* the exact pass, and after it the fuzzy pass when the exact pass found no entry
        Pass(candidates, floor) == BestCandidate(candidates, authors, floor, Len(candidates))
        Fuzzy(exact) == IF exact[1] # None THEN exact ELSE Pass(same_year, <<7, 10>>)
    IN Fuzzy(Pass(keyed, <<-1, 1>>))

\* found when one sub-citation at least resolves
AnyFound(found) == found = << >> \/ \E j \in 1..Len(found) : found[j][1] # None

\* all_found after the loop over the sub-citations: no sub-citation failed to resolve
AllFound(found) == \A j \in 1..Len(found) : found[j][1] # None

match_citation_to_bibliography(index, bibliography, citation) ==
    LET normalized == Get(citation, "normalized", << >>)
        cited_author == Get(normalized, "cited_in_author", "")
        cited_year == Get(normalized, "cited_in_year", "")
        authors == Get(normalized, "authors", << >>)
        year == Get(normalized, "year", "")
        \* the calls of _find_single_match the citation leads to, as <<authors, year>>
        calls == IF "multiple" \in DOMAIN normalized
                 THEN [j \in 1..Len(normalized.multiple) |->
                          <<Get(normalized.multiple[j], "authors", << >>),
                            Get(normalized.multiple[j], "year", "")>>]
                 ELSE IF Get(citation, "type", None) = "secondary"
                 THEN IF cited_author # "" /\ cited_year # ""
                      THEN << <<<<cited_author>>, cited_year>> >> ELSE << >>
                 ELSE IF authors = << >> \/ year = "" THEN << >>
                 ELSE << <<authors, year>> >>
        Matched(found) ==
            IF "multiple" \in DOMAIN normalized
            THEN IF AllFound(found)
                 THEN <<"multiple_valid", <<9, 10>>>> ELSE <<None, Zero>>
            ELSE IF found = << >> THEN <<None, Zero>>
            ELSE found[1]
    IN Matched([j \in 1..Len(calls) |->
                   _find_single_match(index, bibliography, calls[j][1], calls[j][2])])

\* int() of a string of decimal digits
RECURSIVE StrToInt(_)
StrToInt(s) ==
    IF s = "" THEN 0
    ELSE 10 * StrToInt(SubSeq(s, 1, Len(s) - 1))
         + (CHOOSE d \in 0..9 : ToString(d) = CharAt(s, Len(s)))

\* the suggestions _suggest_bibliography_matches appends; index_keys are the keys of
\* bibliography_index that are not entry ids (a hex digest holds no '_')
_suggest_bibliography_matches(index_keys, bibliography, citation) ==
    LET normalized == Get(citation, "normalized", << >>)
        authors == Get(normalized, "authors", << >>)
        year == Get(normalized, "year", "")
        Check(y) == IF \E key \in index_keys : Contains(key, "_" \o ToString(y))
                    THEN <<"Check year " \o ToString(y) \o " in bibliography">> ELSE << >>
        Nearby(year_val) == Flatten([d \in 1..2 |-> Check(year_val + 2 * d - 3)])
        Years(year_num) == IF year # "" /\ year_num # << >> THEN Nearby(StrToInt(year_num[1].text))
                           ELSE << >>
        First(bib_authors, hits) ==
            IF hits = {} THEN << >>
            ELSE <<"Similar author found: "
                   \o Get(bib_authors[CHOOSE j \in hits : \A h \in hits : j <= h], "last_name", "")>>
        Similar(author, bib_authors) ==
            First(bib_authors,
                  {j \in 1..Len(bib_authors) :
                      RatGt(_calculate_similarity(author, Get(bib_authors[j], "last_name", "")),
                            <<4, 5>>)})
    IN Years(Search(Rep(Cls(Digit), 4, 4), 0, year))
       \o Flatten([a \in 1..Len(authors) |->
              IF authors[a] = "et al." THEN << >>
              ELSE Flatten([e \in 1..Len(bibliography) |->
                       Similar(authors[a],
                               Get(Get(bibliography[e], "parsed", << >>), "authors", << >>))])])

\* a status that ignores warnings
OverallStatusErrorsOnly(all_issues) ==
    IF \E j \in 1..Len(all_issues) : all_issues[j].severity = "error" THEN "invalid" ELSE "valid"

\* an item for every citation, matched or not
MissingBibliographyAlways(citation, matched_bib) ==
    << [citation |-> citation,
        searched_for |->
            [authors |-> Get(Get(citation, "normalized", << >>), "authors", << >>),
             year |-> Get(Get(citation, "normalized", << >>), "year", "")]] >>

\* results that are kept when validate_all starts
KeptResults(validation_results) == validation_results

\* a status that is invalid from the third issue on, as the format status is
OverallStatusByCount(all_issues) ==
    IF \E j \in 1..Len(all_issues) : all_issues[j].severity = "error" THEN "invalid"
    ELSE IF Len(all_issues) > 2 THEN "invalid"
    ELSE IF \E j \in 1..Len(all_issues) : all_issues[j].severity = "warning" THEN "warning"
    ELSE "valid"

\* the overall status of a citation with these issues
OverallStatus(all_issues) ==
    IF \E j \in 1..Len(all_issues) : all_issues[j].severity = "error" THEN "invalid"
    ELSE IF \E j \in 1..Len(all_issues) : all_issues[j].severity = "warning" THEN "warning"
    ELSE "valid"

\* what one citation adds to missing_bibliography
MissingBibliography(citation, matched_bib) ==
    IF matched_bib = None
    THEN << [citation |-> citation,
             searched_for |->
                 [authors |-> Get(Get(citation, "normalized", << >>), "authors", << >>),
                  year |-> Get(Get(citation, "normalized", << >>), "year", "")]] >>
    ELSE << >>

\* one pass of the citation loop of validate_all
ValidateCitation(index, bibliography, citation) ==
    LET normalized == Get(citation, "normalized", << >>)
        Pass(format_issues, matched_bib, match_confidence, all_issues, key_authors) ==
            [result |-> [citation_id |-> citation.id, status |-> OverallStatus(all_issues),
                         issues |-> all_issues,
                         suggestions |-> IF matched_bib = None
                                         THEN _suggest_bibliography_matches(
                                                  {k \in DOMAIN index : ~StartsWith(k, "md5:")},
                                                  bibliography, citation)
                                         ELSE << >>,
                         matched_bibliography |-> matched_bib,
                         confidence |-> IF matched_bib = None THEN Zero ELSE match_confidence],
             missing |-> MissingBibliography(citation, matched_bib),
             violation |-> IF format_issues # << >>
                           THEN << [citation |-> citation, issues |-> format_issues] >>
                           ELSE << >>,
             \* authors[0] of an empty list raises IndexError
             raises |-> key_authors = << >>,
             cit_key |-> IF key_authors = << >> THEN None
                         ELSE key_authors[1] \o "_" \o Get(normalized, "year", "Unknown")]
        Issues(format_issues, matched_bib, match_confidence) ==
            Pass(format_issues, matched_bib, match_confidence,
                 [j \in 1..Len(format_issues) |->
                     [type |-> "format", severity |-> "warning", message |-> format_issues[j]]]
                 \o (IF matched_bib = None
                     THEN << [type |-> "missing_bibliography", severity |-> "error",
                              message |-> "No matching bibliography entry found"] >>
                     ELSE IF RatGt(<<4, 5>>, match_confidence)
                     THEN << [type |-> "low_confidence_match", severity |-> "warning",
                              message |-> "Low confidence match ("
                                          \o Fixed2(match_confidence) \o ")"] >>
                     ELSE << >>),
                 Get(normalized, "authors", <<"Unknown">>))
        Matched(format_issues, match) == Issues(format_issues, match[1], match[2])
    IN Matched(validate_citation_format(citation)[2],
               match_citation_to_bibliography(index, bibliography, citation))

\* a threshold that five citations already reach
OverCitedFromFive(count) == count >= 5

\* count > 5: the threshold for listing a key in duplicate_citations
OverCited(count) == count > 5

\* citation_stats, in insertion order, after counting the keys
RECURSIVE CountKeys(_)
CountKeys(keys) ==
    IF keys = << >> THEN << >>
    ELSE LET before == CountKeys(SubSeq(keys, 1, Len(keys) - 1))
             key == keys[Len(keys)]
         IN IF \E j \in 1..Len(before) : before[j][1] = key
            THEN [j \in 1..Len(before) |->
                     IF before[j][1] = key THEN <<key, before[j][2] + 1>> ELSE before[j]]
            ELSE Append(before, <<key, 1>>)

\* validate_all on the loaded data: whether it raised, validation_results as it leaves
\* them, and the report it returns
validate_all(citations, bibliography, index) ==
    LET Count(results, status) == Cardinality({j \in 1..Len(results) : results[j].status = status})
        Top(citation_stats) ==
            CHOOSE j \in 1..Len(citation_stats) :
                /\ \A h \in 1..Len(citation_stats) : citation_stats[j][2] >= citation_stats[h][2]
                /\ \A h \in 1..(j - 1) : citation_stats[h][2] < citation_stats[j][2]
        Report(passes, results, citation_stats, over, bibliography_issues) ==
            [total_citations |-> Len(citations),
             valid_citations |-> Count(results, "valid"),
             invalid_citations |-> Count(results, "invalid"),
             warnings |-> Count(results, "warning"),
             missing_bibliography |-> Flatten([j \in 1..Len(citations) |-> passes[j].missing]),
             format_violations |-> Flatten([j \in 1..Len(citations) |-> passes[j].violation]),
             duplicate_citations |->
                 [j \in 1..Len(over) |->
                     [citation_key |-> over[j][1], count |-> over[j][2],
                      suggestion |-> "Consider using narrative citations for variety"]],
             statistics |->
                 [total_bibliography_entries |-> Len(bibliography),
                  bibliography_with_issues |-> Len(bibliography_issues),
                  unique_citations |-> Len(citation_stats),
                  most_cited |-> IF citation_stats # << >> THEN <<citation_stats[Top(citation_stats)]>>
                                 ELSE << >>]]
        Counted(passes, results, citation_stats) ==
            Report(passes, results, citation_stats, SelectSeq(citation_stats, LAMBDA kc : OverCited(kc[2])),
                   SelectSeq(bibliography,
                             LAMBDA entry : validate_bibliography_format(entry)[2] # << >>))
        Done(passes, raising, results) ==
            IF raising # {}
            THEN [raised |-> TRUE, results |-> results, report |-> << >>]
            ELSE [raised |-> FALSE, results |-> results,
                  report |-> Counted(passes, results,
                                     CountKeys([j \in 1..Len(citations) |-> passes[j].cit_key]))]
        Raising(passes, raising) ==
            Done(passes, raising,
                 [j \in 1..(IF raising = {} THEN Len(citations)
                            ELSE CHOOSE j \in raising : \A h \in raising : j <= h) |->
                     passes[j].result])
        Passes(passes) == Raising(passes, {j \in 1..Len(citations) : passes[j].raises})
    IN Passes(Flatten([j \in 1..Len(citations) |->
                          <<ValidateCitation(index, bibliography, citations[j])>>]))

\* the index load_data builds: every entry under its id, and under each of its
\* normalized-author_year keys the list of entries having it
RECURSIVE BuildValidatorIndex(_, _)
BuildValidatorIndex(bibliography, k) ==
    IF k = 0 THEN << >>
    ELSE LET entry == bibliography[k]
             parsed == Get(entry, "parsed", << >>)
             year == Get(parsed, "year", None)
             authors == Get(parsed, "authors", << >>)
             keys == [j \in 1..Len(authors) |->
                        IF Get(authors[j], "last_name", "") # "" /\ year \notin {None, ""}
                        THEN <<V_normalize_text(authors[j].last_name) \o "_" \o year>> ELSE << >>]
             before == BuildValidatorIndex(bibliography, k - 1)
             byId == (entry.id :> entry) @@ before
             RECURSIVE AddKeys(_, _)
             AddKeys(ix, ks) ==
                 IF ks = << >> THEN ix
                 ELSE AddKeys((Head(ks) :> (IF Head(ks) \in DOMAIN ix THEN Append(ix[Head(ks)], entry)
                                            ELSE <<entry>>)) @@ ix, Tail(ks))
         IN AddKeys(byId, Flatten(keys))

(***************************************************************************)
(* The files the components read                                           *)
(***************************************************************************)
\* sections/*/content/*.md in sorted order; the last two are the bibliography directory
AllNames == <<"sections/1-intro/content/a.md", "sections/1-intro/content/b.md",
              "sections/7-bibliografia/content/r.md", "sections/7-bibliografia/content/s.md">>
ContentNames == {AllNames[1], AllNames[2]}
BibNames == {AllNames[3], AllNames[4]}

Absent == [exists |-> FALSE, readable |-> FALSE, lines |-> << >>]
Unreadable == [exists |-> TRUE, readable |-> FALSE, lines |-> << >>]
Text(lines) == [exists |-> TRUE, readable |-> TRUE, lines |-> lines]

\* no call made on the extractor since it was constructed
NoCall == [call |-> None, file |-> None, citations |-> << >>, invalid |-> 0]

\* documents with citations of every shape of the catalog
DocPool ==
    { Absent, Unreadable,
      Text(<<"Research shows (Smith, 2023) that...">>),
      Text(<<"(Smith & Jones, 2023)">>),
      Text(<<"(Mary Jones, 2023)", "(Jones, 2099)">>),
      Text(<<"(Smith, 2020, as cited in Jones, 2023)", "(Smith, 2023; Jones, 2022)">>),
      Text(<<"(see; also)", "Smith et al. (2023) found", "(Smith et al., 2023)",
             "(Smith et al., 2023; Jones, 2022)">>),
      Text(<<"(J. Smith, personal communication, January 15, 2023)", "(Smyth, 2023, p. 15)">>),
      Text(<<"(Smith, 2023) (Smith, 2023)", "Smith & Jones (2023) argue">>),
      Text(<<"No citation here.", "">>) }

\* bibliography files with entries of every validation status
BibPool ==
    { Unreadable,
      Text(<<"Smith, J. (2023). Title. Journal, 1(1), 1-10.">>),
      Text(<<"# References", "", "Smith, J., & Jones, M. (2023). Title. Journal, 1(1), 1-10.">>),
      Text(<<"Jones, M. (2022). _Book title_. Publisher", "Untitled note without year.">>),
      Text(<<"Smith, J. (2023). Web page. Retrieved from https://example.com",
             "Smith, J. (2023). Title. Journal, 1(1), 1-10">>),
      Text(<<"Smith, J. (2023). _T_ [Doctoral dissertation]. U.",
             "(2023). Title only. Journal, 1(1), 1-10.">>),
      Text(<<"Smith, J. (n.d.). Title. Journal, 1(1), 1-10.", "Anonymous (2023). Title">>),
      Text(<<"Smith, J., & Smith, K. (2023). Title. Journal, 1(1), 1-10.",
             "Jones, M. (2022). Chapter. In Journal, 1(1), 1-10.">>) }

\* the sections tree holding the four files
Tree(a, b, r, s) ==
    [exists |-> TRUE,
     files |-> (AllNames[1] :> a) @@ (AllNames[2] :> b) @@ (AllNames[3] :> r) @@ (AllNames[4] :> s)]

NoTree == [exists |-> FALSE, files |-> [n \in ContentNames \cup BibNames |-> Absent]]

\* the orders in which glob may list the files among names that exist
GlobOrders(tree, names) ==
    LET found == {n \in names : tree.files[n].exists}
    IN {q \in [1..Cardinality(found) -> found] : \A n \in found : \E k \in DOMAIN q : q[k] = n}

\* the names among names, in sorted order, of the files that exist
Glob(tree, names) == SelectSeq(AllNames, LAMBDA n : n \in names /\ tree.files[n].exists)

(***************************************************************************)
(* Construction: CitationExtractor(), BibliographyProcessor(),             *)
(* ReferenceValidator(), and an orchestrator that has not run yet          *)
(***************************************************************************)
ExStats0 == [files_processed |-> 0, citations_found |-> 0, citations_by_type |-> << >>]
BpStats0 == [total_entries |-> 0, valid_entries |-> 0, invalid_entries |-> 0,
             entries_by_type |-> << >>]

Constructed ==
    /\ ex_stats = ExStats0
    /\ ex_citations = << >>
    /\ ex_last = NoCall
    /\ ex_seen = [n \in ContentNames \cup BibNames |-> << >>]
    /\ bp_entries = << >>
    /\ bp_index = << >>
    /\ bp_stats = BpStats0
    /\ v_citations = << >>
    /\ v_bibliography = << >>
    /\ v_index = << >>
    /\ v_results = << >>
    /\ v_report = << >>
    /\ v_raised = ""
    /\ v_calls = 0
    /\ wf_step = "start"

(***************************************************************************)
(* The citation extractor as a component                                   *)
(***************************************************************************)
MaxExtractions == 2

IdSet(cits) == {cits[j].id : j \in 1..Len(cits)}

\* the history of first extractions, after filepath's extraction returned file_citations
Seen(seen, filepath, file_citations) ==
    IF seen[filepath] = << >> THEN [seen EXCEPT ![filepath] = <<IdSet(file_citations)>>]
    ELSE seen

\* the extractor after extract_from_file has run on the first k of the files
RECURSIVE ProcessedFiles(_, _, _, _)
ProcessedFiles(extractor, tree, content_files, k) ==
    LET Extracted(before, filepath, file_citations) ==
            [stats |-> ExtractStats(before.stats, tree.files[filepath], file_citations),
             citations |-> before.citations \o file_citations,
             last |-> [call |-> "extract_from_file", file |-> filepath,
                       citations |-> file_citations, invalid |-> 0],
             seen |-> Seen(before.seen, filepath, file_citations)]
    IN IF k = 0 THEN extractor
       ELSE Extracted(ProcessedFiles(extractor, tree, content_files, k - 1), content_files[k],
                      ExtractResult(content_files[k], tree.files[content_files[k]]))

\* process_all_sections: every sections/*/content/*.md in sorted order, the
\* bibliography's files among them
process_all_sections(extractor, tree) ==
    LET Returned(done) ==
            [raised |-> FALSE,
             last |-> [call |-> "process_all_sections", file |-> None,
                       citations |-> done.citations, invalid |-> 0]] @@ done
        Processed(content_files) ==
            Returned(ProcessedFiles([extractor EXCEPT !.citations = << >>], tree, content_files,
                                    Len(content_files)))
    IN IF ~tree.exists THEN [raised |-> TRUE] @@ extractor
       ELSE Processed(Glob(tree, ContentNames \cup BibNames))

\* extractor = CitationExtractor()
NewExtractor ==
    /\ ex_stats' = ExStats0
    /\ ex_citations' = << >>
    /\ ex_last' = NoCall
    /\ UNCHANGED <<ex_seen, fsVars, bpVars, jsonVars, vVars, wf_step>>

\* extractor.extract_from_file(filepath), self.patterns being patterns
ExtractFromFile(filepath, patterns) ==
    LET \* the 'Invalid regex pattern' errors the call logs
        Invalid(file) ==
            IF ~file.exists \/ ~file.readable THEN 0
            ELSE Len(SelectSeq(patterns, LAMBDA pattern_info : pattern_info.re = Uncompilable))
        Extracted(file, file_citations) ==
            /\ ex_last' = [call |-> "extract_from_file", file |-> filepath,
                           citations |-> file_citations, invalid |-> Invalid(file)]
            /\ ex_stats' = ExtractStats(ex_stats, file, file_citations)
            /\ ex_seen' = Seen(ex_seen, filepath, file_citations)
    IN /\ ex_stats.files_processed < MaxExtractions
       /\ Extracted(sections.files[filepath],
                    extract_from_file(patterns, filepath, sections.files[filepath]))
       /\ UNCHANGED <<ex_citations, fsVars, bpVars, jsonVars, vVars, wf_step>>

\* extractor.process_all_sections(); a FileNotFoundError leaves the extractor as it was
ProcessAllSections ==
    LET Ran(run) ==
            IF run.raised THEN UNCHANGED exVars
            ELSE /\ ex_stats' = run.stats
                 /\ ex_citations' = run.citations
                 /\ ex_last' = run.last
                 /\ ex_seen' = run.seen
    IN /\ ex_stats.files_processed < MaxExtractions
       /\ Ran(process_all_sections([stats |-> ex_stats, citations |-> ex_citations,
                                    last |-> ex_last, seen |-> ex_seen], sections))
       /\ UNCHANGED <<fsVars, bpVars, jsonVars, vVars, wf_step>>

\* the catalogs an extractor may hold: the one shipped, and that one with a rule whose
\* pattern does not compile put in before every rule, or between the parenthetical and
\* the narrative rules
PatternSets ==
    LET InvalidRule == [name |-> "invalid", type |-> "parenthetical", ngroups |-> 0,
                        re |-> Uncompilable]
        WithInvalid(k) ==
            SubSeq(CITATION_PATTERNS, 1, k) \o <<InvalidRule>>
            \o SubSeq(CITATION_PATTERNS, k + 1, Len(CITATION_PATTERNS))
    IN {CITATION_PATTERNS} \cup {WithInvalid(k) : k \in {0, 3}}

ExtractorInit ==
    /\ \E a \in DocPool, b \in {Absent, Text(<<"As (Smith, 2023) and Smith (2023) say">>)} :
           sections = Tree(a, b, Absent, Absent)
    /\ bib_glob = << >>
    /\ citations_json = << >>
    /\ bibliography_json = << >>
    /\ Constructed

ExtractorNext ==
    \/ NewExtractor
    \/ \E filepath \in ContentNames :
           \E patterns \in PatternSets :
               ExtractFromFile(filepath, patterns)
    \/ ProcessAllSections

SpecExtract == ExtractorInit /\ [][ExtractorNext]_vars

\* C8: every citation extract_from_file returns has confidence 1.0, less 0.3 when its
\* normalized year is absent (missing or empty), less 0.3 when both its normalized authors
\* and its multiple sub-citations are absent, and never less than 0.1; so the confidence
\* of every citation, whatever its shape, lies between 0.1 and 1.0
C8_ConfidenceFormula ==
    \A j \in 1..Len(ex_last.citations) :
        LET c == ex_last.citations[j]
            n == c.normalized
            year_absent == ~("year" \in DOMAIN n /\ n.year # "")
            authors_absent == ~("authors" \in DOMAIN n /\ n.authors # << >>)
            multiple_absent == ~("multiple" \in DOMAIN n /\ n.multiple # << >>)
            tenths == 10 - (IF year_absent THEN 3 ELSE 0)
                         - (IF authors_absent /\ multiple_absent THEN 3 ELSE 0)
        IN /\ 10 * c.confidence[1] = (IF tenths < 1 THEN 1 ELSE tenths) * c.confidence[2]
           /\ c.confidence[2] > 0
           /\ 10 * c.confidence[1] >= c.confidence[2]
           /\ c.confidence[1] <= c.confidence[2]

\* a file was extracted that holds a multiple-citation payload of confidence 0.7 and a
\* secondary citation, with neither year nor authors, of confidence 0.4
C8_Witness ==
    /\ \E j \in 1..Len(ex_last.citations) :
           /\ ex_last.citations[j].type = "multiple_citations"
           /\ ex_last.citations[j].normalized.multiple # << >>
           /\ ex_last.citations[j].confidence = <<7, 10>>
    /\ \E j \in 1..Len(ex_last.citations) :
           /\ ex_last.citations[j].type = "secondary"
           /\ ex_last.citations[j].confidence = <<2, 5>>

\* C9: extract_from_file never returns two citations with the same raw_text, line and
\* column; each citation it returns is the first match, in the order of the catalog, found
\* at its span, with that rule's type and normalized fields; and the call adds to
\* citations_found and to citations_by_type exactly the citations it returns
C9_Deduplicated ==
    /\ [](ex_last.file # None =>
            LET kept == ex_last.citations
                file == sections.files[ex_last.file]
                all == IF file.exists /\ file.readable
                       THEN AllCitations(ex_last.file, file.lines) ELSE << >>
                Span(c) == <<c.raw_text, c.location.line, c.location.column>>
            IN /\ \A i, j \in 1..Len(kept) : i # j => Span(kept[i]) # Span(kept[j])
               /\ \A k \in 1..Len(all) : \E j \in 1..Len(kept) : Span(kept[j]) = Span(all[k])
               /\ \A j \in 1..Len(kept) :
                      \E k \in 1..Len(all) :
                          /\ all[k] = kept[j]
                          /\ \A h \in 1..(k - 1) : Span(all[h]) # Span(kept[j]))
    /\ [][ex_last'.file # None =>
            LET Of(type) == Cardinality({j \in 1..Len(ex_last'.citations) :
                                            ex_last'.citations[j].type = type})
            IN /\ ex_stats'.citations_found
                      = ex_stats.citations_found + Len(ex_last'.citations)
               /\ \A type \in DOMAIN ex_stats'.citations_by_type :
                      ex_stats'.citations_by_type[type]
                          = Get(ex_stats.citations_by_type, type, 0) + Of(type)
               /\ \A j \in 1..Len(ex_last'.citations) :
                      ex_last'.citations[j].type \in DOMAIN ex_stats'.citations_by_type
       ]_vars

\* '(Mary Jones, 2023)' is matched by single_author and, at the same span, by
\* two_authors; the citation returned is the single_author one
C9_Witness ==
    /\ ex_last.file # None
    /\ \E j \in 1..Len(ex_last.citations) :
           /\ ex_last.citations[j].raw_text = "(Mary Jones, 2023)"
           /\ ex_last.citations[j].normalized.authors = <<"Mary Jones">>
    /\ LET all == AllCitations(ex_last.file, sections.files[ex_last.file].lines)
       IN Cardinality({k \in 1..Len(all) : all[k].raw_text = "(Mary Jones, 2023)"}) = 2
    /\ ex_stats.citations_found = Len(ex_last.citations)

\* C10: the id of every citation extract_from_file returns is the digest of its raw_text,
\* file, line and column, and an extraction of a file returns the same set of ids as the
\* first extraction of that file did, on the same extractor or on a new one and whatever
\* was extracted and counted before
C10_IdsDeterministic ==
    ex_last.file # None =>
        /\ \A j \in 1..Len(ex_last.citations) :
               LET c == ex_last.citations[j]
               IN c.id = _generate_citation_id(c.raw_text,
                             c.location.file \o ":" \o ToString(c.location.line) \o ":"
                             \o ToString(c.location.column - 1))
        /\ ex_seen[ex_last.file] # << >> => IdSet(ex_last.citations) = ex_seen[ex_last.file][1]

\* the same extractor has extracted the first file twice, and no other file, and found
\* citations in it
C10_Witness ==
    /\ ex_stats.files_processed = 2
    /\ ex_last.file = AllNames[1]
    /\ ex_last.citations # << >>
    /\ ex_stats.citations_found = 2 * Len(ex_last.citations)
    /\ ex_seen[AllNames[2]] = << >>

(***************************************************************************)
(* The bibliography processor as a component                               *)
(***************************************************************************)
MaxTotalEntries == 4
MaxFaultLine == 2

\* processor = BibliographyProcessor()
NewProcessor ==
    /\ bp_entries' = << >>
    /\ bp_index' = << >>
    /\ bp_stats' = BpStats0
    /\ UNCHANGED <<fsVars, exVars, jsonVars, vVars, wf_step>>

\* processor.load_and_parse(); a FileNotFoundError leaves the processor as it was
LoadAndParse(fault_line, fault) ==
    LET Loaded(run) ==
            IF run.raised THEN UNCHANGED bpVars
            ELSE /\ bp_entries' = run.entries
                 /\ bp_index' = _build_index(run.entries, Len(run.entries))
                 /\ bp_stats' = run.stats
    IN /\ bp_stats.total_entries < MaxTotalEntries
       /\ (fault_line = 0) = (fault = 0)
       /\ Loaded(load_and_parse(bp_stats, [f \in 1..Len(bib_glob) |-> sections.files[bib_glob[f]]],
                                fault_line, fault))
       /\ UNCHANGED <<fsVars, exVars, jsonVars, vVars, wf_step>>

ProcessorInit ==
    /\ \E r \in BibPool \cup {Absent},
          s \in {Absent, Text(<<"Jones, M. (2022). _Book title_. Publisher.">>),
                 Text(<<"Smith, J. (2023). Title. Journal, 1(1), 1-10.">>)} :
           /\ sections = Tree(Absent, Absent, r, s)
           /\ bib_glob \in GlobOrders(Tree(Absent, Absent, r, s), BibNames)
    /\ citations_json = << >>
    /\ bibliography_json = << >>
    /\ Constructed

ProcessorNext ==
    \/ NewProcessor
    \/ \E fault_line \in 0..MaxFaultLine, fault \in 0..3 : LoadAndParse(fault_line, fault)

SpecBib == ProcessorInit /\ [][ProcessorNext]_vars

\* C6: every entry _parse_entry produces whose parsed authors, year or title is missing or
\* empty has validation_status invalid, whatever its type and whether or not its parser raised
C6_MissingFieldInvalid ==
    \A j \in 1..Len(bp_entries) :
        LET parsed == bp_entries[j].parsed
            absent(key) == key \notin DOMAIN parsed \/ parsed[key] \in {None, ""}
        IN \/ "authors" \notin DOMAIN parsed
           \/ parsed.authors = << >>
           \/ absent("year")
           \/ absent("title")
           => bp_entries[j].validation_status = "invalid"

\* entries were parsed of which one lost every field to a raising parser and another,
\* parsed without an exception and ending in a period, lacks only its authors
C6_Witness ==
    /\ \E j \in 1..Len(bp_entries) :
           /\ bp_entries[j].parsed = << >>
           /\ bp_entries[j].errors[1] = "Parsing error: fault"
           /\ bp_entries[j].validation_status = "invalid"
    /\ \E j \in 1..Len(bp_entries) :
           /\ bp_entries[j].errors = <<"Missing authors">>
           /\ bp_entries[j].parsed.year = "2023"
           /\ bp_entries[j].validation_status = "invalid"

\* C7: an entry with authors, year and title whose text does not end in a period has
\* validation_status warning and the error 'Entry should end with a period'; an entry
\* lacking a required field is invalid with or without the period; and an entry is valid
\* only if it has the three fields and ends with a period
C7_PeriodWarning ==
    \A j \in 1..Len(bp_entries) :
        LET entry == bp_entries[j]
            present(key) == key \in DOMAIN entry.parsed /\ entry.parsed[key] \notin {None, ""}
            complete == /\ "authors" \in DOMAIN entry.parsed
                        /\ entry.parsed.authors # << >>
                        /\ present("year")
                        /\ present("title")
            period == EndsWith(entry.raw_text, ".")
            told == \E k \in 1..Len(entry.errors) :
                        entry.errors[k] = "Entry should end with a period"
        IN /\ complete /\ ~period => entry.validation_status = "warning" /\ told
           /\ ~complete => entry.validation_status = "invalid"
           /\ ~period => told
           /\ entry.validation_status = "valid" => complete /\ period

\* a complete entry without the period is a warning, and an entry without the period
\* that lacks a field is invalid
C7_Witness ==
    /\ \E j \in 1..Len(bp_entries) :
           /\ bp_entries[j].raw_text = "Smith, J. (2023). Title. Journal, 1(1), 1-10"
           /\ bp_entries[j].validation_status = "warning"
           /\ bp_entries[j].errors = <<"Entry should end with a period">>
    /\ \E j \in 1..Len(bp_entries) :
           /\ bp_entries[j].validation_status = "invalid"
           /\ bp_entries[j].errors[Len(bp_entries[j].errors)] = "Entry should end with a period"

(***************************************************************************)
(* The reference validator as a component                                  *)
(***************************************************************************)
MaxValidateCalls == 2

\* json.dump of the dataclasses' asdict: the file holds the list under its key
SavedCitations(citations) == << [citations |-> [j \in 1..Len(citations) |-> citations[j]]] >>
SavedEntries(entries) == << [entries |-> [j \in 1..Len(entries) |-> entries[j]]] >>

\* citations as a test or an editor writes them into citations.json: a parenthetical
\* citation joined by 'and', a citation whose normalized authors are an empty list, and
\* one without parentheses, joined by 'and', with 'et al' without its period
WrittenCitation(raw_text, authors) ==
    [id |-> Md5Prefix(raw_text), raw_text |-> raw_text, type |-> "parenthetical",
     normalized |-> [authors |-> authors, year |-> "2023"],
     location |-> [file |-> AllNames[1], line |-> 1, column |-> 1, context |-> raw_text],
     confidence |-> One]

\* the citations.json files the validator is run on
CitationFiles ==
    { << >>,
      SavedCitations(<<WrittenCitation("(Smith and Jones, 2023)", <<"Smith", "Jones">>)>>),
      SavedCitations(<<WrittenCitation("(Smith, 2023)", <<"Smith">>),
                       WrittenCitation("(2023)", << >>),
                       WrittenCitation("(Jones, 2023)", <<"Jones">>)>>),
      SavedCitations(<<WrittenCitation("Smith and Jones et al, 2023", <<"Smith">>)>>) }
    \cup { SavedCitations(ExtractResult(AllNames[1], Text(lines))) :
             lines \in { <<"Research shows (Smith, 2023) that...">>,
                         <<"(Jones, 2099)", "see (Smith, 2023)">>,
                         <<"Smith & Jones (2023) argue", "(Smith & Jones, 2023)", "(Smith, 2023)">>,
                         <<"(Smith, 2023; Smith, 2023)", "(Smith, 2023; Jones, 2022)">>,
                         <<"(Smith, 2020, as cited in Jones, 2022)">>,
                         <<"(Smith, 2023)", "Smith (2023) says", "(Smith, 2023)", "Smith (2023) says",
                           "(Smith, 2023)", "Smith (2023) says", "(Jones, 2022)", "(Jones, 2022)",
                           "(Jones, 2022)", "(Jones, 2022)", "(Jones, 2022)">>,
                         <<"(Garcia, 2023)", "(GARCIA, 2023) and García (2023)">>,
                         <<"(Smith et al., 2023; Jones, 2022)">>,
                         <<"(Janet Allen, 2023)">>,
                         <<"No citation here.">> } }

\* the bibliography.json files the validator is run on
BibliographyFiles ==
    { << >> }
    \cup { SavedEntries(load_and_parse(BpStats0, <<Text(lines)>>, 0, 0).entries) :
             lines \in { <<"Smith, J. (2023). Title. Journal, 1(1), 1-10.">>,
                         <<"Smith, J., & Jones, M. (2023). Title. Journal, 1(1), 1-10.">>,
                         <<"García, J. (2023). Title. Journal, 1(1), 1-10.">>,
                         <<"Allen, J. (2023). Title. Journal, 1(1), 1-10.">>,
                         <<"Lee, A., & Smith, J. (2023). Title. Journal, 1(1), 1-10.",
                           "Smyth, K. (2023). Title. Journal, 1(1), 1-10.">>,
                         <<"Jones, M. (2022). _Book title_. Publisher",
                           "Untitled note without year.">> } }

\* self.validation_results = [] at the start of validate_all
ResetResults(validation_results) == << >>

\* validator = ReferenceValidator()
NewValidator ==
    /\ v_citations' = << >>
    /\ v_bibliography' = << >>
    /\ v_index' = << >>
    /\ v_results' = << >>
    /\ v_report' = << >>
    /\ v_raised' = ""
    /\ v_calls' = 0
    /\ UNCHANGED <<fsVars, exVars, bpVars, jsonVars, wf_step>>

\* a load that takes a missing file for an empty list
LoadDataTolerant(citations_file, bibliography_file, citations, bibliography, index) ==
    [raised |-> FALSE,
     citations |-> IF citations_file = << >> THEN << >>
                   ELSE Get(citations_file[1], "citations", << >>),
     bibliography |-> << >>, index |-> << >>]

\* load_data on the two json files: the citations are loaded before the bibliography
\* file is looked for, so a missing bibliography leaves the citations loaded
load_data(citations_file, bibliography_file, citations, bibliography, index) ==
    LET Indexed(entries) ==
            [raised |-> FALSE, citations |-> Get(citations_file[1], "citations", << >>),
             bibliography |-> entries, index |-> BuildValidatorIndex(entries, Len(entries))]
    IN IF citations_file = << >>
       THEN [raised |-> TRUE, citations |-> citations, bibliography |-> bibliography,
             index |-> index]
       ELSE IF bibliography_file = << >>
       THEN [raised |-> TRUE, citations |-> Get(citations_file[1], "citations", << >>),
             bibliography |-> bibliography, index |-> index]
       ELSE Indexed(Get(bibliography_file[1], "entries", << >>))

\* validator.load_data()
LoadData ==
    LET Loaded(run) ==
            /\ v_citations' = run.citations
            /\ v_bibliography' = run.bibliography
            /\ v_index' = run.index
            /\ v_raised' = IF run.raised THEN "FileNotFoundError" ELSE ""
    IN /\ Loaded(load_data(citations_json, bibliography_json, v_citations, v_bibliography, v_index))
       /\ UNCHANGED <<v_results, v_report, v_calls>>
       /\ UNCHANGED <<fsVars, exVars, bpVars, jsonVars, wf_step>>

\* report = validator.validate_all(); when the loop raises there is no report, and the
\* results appended before the exception stay in validation_results
ValidateAll ==
    LET Validated(run) ==
            /\ v_results' = ResetResults(v_results) \o run.results
            /\ v_report' = IF run.raised THEN << >> ELSE <<run.report>>
            /\ v_raised' = IF run.raised THEN "IndexError" ELSE ""
    IN /\ v_calls < MaxValidateCalls
       /\ Validated(validate_all(v_citations, v_bibliography, v_index))
       /\ v_calls' = v_calls + 1
       /\ UNCHANGED <<v_citations, v_bibliography, v_index>>
       /\ UNCHANGED <<fsVars, exVars, bpVars, jsonVars, wf_step>>

ValidatorInit ==
    /\ sections = NoTree
    /\ bib_glob = << >>
    /\ citations_json \in CitationFiles
    /\ bibliography_json \in BibliographyFiles
    /\ Constructed

ValidatorNext ==
    \/ NewValidator
    \/ LoadData
    \/ ValidateAll

SpecValidate == ValidatorInit /\ [][ValidatorNext]_vars

\* C1: whenever validate_all returns, validation_results holds exactly one result per
\* loaded citation, in the citations' order, and the report it returns counts every
\* loaded citation once: total_citations = valid_citations + invalid_citations + warnings;
\* this holds for the first call on a validator and for every later one
C1_OneResultPerCitation ==
    [][v_calls' = v_calls + 1 /\ v_raised' = ""
       => /\ Len(v_results') = Len(v_citations')
          /\ \A j \in 1..Len(v_citations') : v_results'[j].citation_id = v_citations'[j].id
          /\ v_report'[1].total_citations = Len(v_citations')
          /\ v_report'[1].total_citations
               = v_report'[1].valid_citations + v_report'[1].invalid_citations
                 + v_report'[1].warnings]_vars

\* validate_all returned a second time on a validator holding two citations, one of
\* them valid and the other invalid
C1_Witness ==
    /\ v_calls = 2
    /\ v_raised = ""
    /\ Len(v_citations) = 2
    /\ Len(v_results) = 2
    /\ v_report[1].valid_citations = 1
    /\ v_report[1].invalid_citations = 1

\* C2: every result of validate_all is invalid if one of its issues has severity error,
\* otherwise warning if one has severity warning, otherwise valid; every issue
\* validate_citation_format finds for the citation is among its issues with type format
\* and severity warning; and a result matched with confidence below 0.8 has an issue of
\* type low_confidence_match and severity warning
C2_OverallStatus ==
    \A j \in 1..Len(v_results) :
        LET result == v_results[j]
            has(severity) == \E k \in 1..Len(result.issues) : result.issues[k].severity = severity
            format_issues == validate_citation_format(v_citations[j])[2]
        IN /\ result.status = IF has("error") THEN "invalid"
                              ELSE IF has("warning") THEN "warning"
                              ELSE "valid"
           /\ \A f \in 1..Len(format_issues) :
                  \E k \in 1..Len(result.issues) :
                      result.issues[k] = [type |-> "format", severity |-> "warning",
                                          message |-> format_issues[f]]
           /\ \A k \in 1..Len(result.issues) :
                  result.issues[k].type = "format" => result.issues[k].severity = "warning"
           /\ result.matched_bibliography # None /\ RatGt(<<4, 5>>, result.confidence)
              => \E k \in 1..Len(result.issues) :
                     /\ result.issues[k].type = "low_confidence_match"
                     /\ result.issues[k].severity = "warning"

\* one run gave a warning for a match of confidence 0.5 and nothing else, an invalid
\* result whose issues are a format warning and the missing bibliography error, and a
\* valid result without issues
C2_Witness ==
    /\ \E j \in 1..Len(v_results) :
           /\ v_results[j].status = "warning"
           /\ v_results[j].confidence = <<1, 2>>
           /\ Len(v_results[j].issues) = 1
           /\ v_results[j].issues[1].type = "low_confidence_match"
    /\ \E j \in 1..Len(v_results) :
           /\ v_results[j].status = "invalid"
           /\ Len(v_results[j].issues) = 2
           /\ v_results[j].issues[1].type = "format"
           /\ v_results[j].issues[2].severity = "error"
    /\ \E j \in 1..Len(v_results) :
           /\ v_results[j].status = "valid"
           /\ v_results[j].issues = << >>

\* C3: whenever validate_all returns, every citation that match_citation_to_bibliography
\* does not match has a result with status invalid, matched_bibliography null, confidence
\* 0 and an issue of type missing_bibliography and severity error; and the report's
\* missing_bibliography holds, in the citations' order, exactly one item for each
\* unmatched citation (the citation and the authors and year searched for) and none for
\* a matched one
C3_MissingBibliography ==
    [][v_calls' = v_calls + 1 /\ v_raised' = ""
       => LET unmatched(j) ==
                  match_citation_to_bibliography(v_index', v_bibliography', v_citations'[j])[1]
                      = None
              item(j) ==
                  [citation |-> v_citations'[j],
                   searched_for |->
                       [authors |-> Get(Get(v_citations'[j], "normalized", << >>), "authors", << >>),
                        year |-> Get(Get(v_citations'[j], "normalized", << >>), "year", "")]]
          IN /\ \A j \in 1..Len(v_citations') :
                    unmatched(j)
                    => /\ v_results'[j].status = "invalid"
                       /\ v_results'[j].matched_bibliography = None
                       /\ v_results'[j].confidence = Zero
                       /\ \E k \in 1..Len(v_results'[j].issues) :
                              /\ v_results'[j].issues[k].type = "missing_bibliography"
                              /\ v_results'[j].issues[k].severity = "error"
             /\ v_report'[1].missing_bibliography
                  = Flatten([j \in 1..Len(v_citations') |->
                                IF unmatched(j) THEN <<item(j)>> ELSE << >>])]_vars

\* validate_all returned for (Jones, 2099), which no entry matches, and (Smith, 2023),
\* which one does: the report lists the first alone, searched for as Jones, 2099
C3_Witness ==
    /\ v_calls > 0
    /\ v_raised = ""
    /\ Len(v_results) = 2
    /\ v_results[1].status = "invalid"
    /\ v_results[2].matched_bibliography # None
    /\ Len(v_report[1].missing_bibliography) = 1
    /\ v_report[1].missing_bibliography[1].searched_for = [authors |-> <<"Jones">>, year |-> "2099"]

(***************************************************************************)
(* The orchestrator: the three steps of validate_citations.py, each run    *)
(* as main runs it for --step, or one after the other by                   *)
(* run_complete_workflow, which stops at the first step that fails         *)
(***************************************************************************)
\* run_extraction: a new extractor, process_all_sections, save_results
RunExtraction ==
    LET Ran(run) ==
            /\ ex_stats' = run.stats
            /\ ex_citations' = run.citations
            /\ ex_last' = run.last
            /\ ex_seen' = run.seen
            /\ citations_json' = IF run.raised THEN citations_json ELSE SavedCitations(run.citations)
            /\ wf_step' = IF run.raised THEN "failed" ELSE "extracted"
    IN /\ Ran(process_all_sections([stats |-> ExStats0, citations |-> << >>,
                                    last |-> NoCall,
                                    seen |-> ex_seen], sections))
       /\ UNCHANGED <<fsVars, bpVars, bibliography_json, vVars>>

\* run_bibliography_processing: a new processor, load_and_parse, save_results
RunBibliographyProcessing ==
    LET Ran(run) ==
            /\ bp_entries' = run.entries
            /\ bp_index' = IF run.raised THEN << >> ELSE _build_index(run.entries, Len(run.entries))
            /\ bp_stats' = run.stats
            /\ bibliography_json' = IF run.raised THEN bibliography_json
                                    ELSE SavedEntries(run.entries)
            /\ wf_step' = IF run.raised THEN "failed" ELSE "processed"
    IN /\ Ran(load_and_parse(BpStats0, [f \in 1..Len(bib_glob) |-> sections.files[bib_glob[f]]],
                             0, 0))
       /\ UNCHANGED <<fsVars, exVars, citations_json, vVars>>

\* run_validation: a new validator, load_data, validate_all; the results file it then
\* saves is read by none of the three steps
RunValidation ==
    LET Validated(run) ==
            /\ v_results' = run.results
            /\ v_report' = IF run.raised THEN << >> ELSE <<run.report>>
            /\ v_raised' = IF run.raised THEN "IndexError" ELSE ""
            /\ v_calls' = 1
            /\ wf_step' = IF run.raised THEN "failed" ELSE "validated"
        Loaded(data) ==
            /\ v_citations' = data.citations
            /\ v_bibliography' = data.bibliography
            /\ v_index' = data.index
            /\ IF data.raised
               THEN /\ v_results' = << >>
                    /\ v_report' = << >>
                    /\ v_raised' = "FileNotFoundError"
                    /\ v_calls' = 0
                    /\ wf_step' = "failed"
               ELSE Validated(validate_all(data.citations, data.bibliography, data.index))
    IN /\ Loaded(load_data(citations_json, bibliography_json, << >>, << >>, << >>))
       /\ UNCHANGED <<fsVars, exVars, bpVars, jsonVars>>

Init ==
    /\ \/ sections = NoTree
       \/ \E a \in DocPool, r \in BibPool \cup {Absent} : sections = Tree(a, Absent, r, Absent)
    /\ bib_glob \in GlobOrders(sections, BibNames)
    /\ citations_json = << >>
    /\ bibliography_json = << >>
    /\ Constructed

Next ==
    \/ RunExtraction
    \/ RunBibliographyProcessing
    \/ RunValidation

Spec == Init /\ [][Next]_vars

\* C4: when the workflow has validated the document (Smith & Jones, 2023) against the
\* bibliography Smith, J., & Jones, M. (2023), the citation is a parenthetical one with
\* normalized authors Smith and Jones and year 2023, and its result is matched to that
\* entry with confidence 1.0
C4_TwoAuthorsMatched ==
    /\ wf_step = "validated"
    /\ sections.files[AllNames[1]] = Text(<<"(Smith & Jones, 2023)">>)
    /\ sections.files[AllNames[3]]
         = Text(<<"# References", "", "Smith, J., & Jones, M. (2023). Title. Journal, 1(1), 1-10.">>)
    => /\ Len(v_citations) = 1
       /\ v_citations[1].raw_text = "(Smith & Jones, 2023)"
       /\ v_citations[1].type = "parenthetical"
       /\ v_citations[1].normalized = [authors |-> <<"Smith", "Jones">>, year |-> "2023"]
       /\ v_results[1].matched_bibliography = v_bibliography[1].id
       /\ v_results[1].confidence = One

\* C5: when the workflow has validated the document 'Research shows (Smith, 2023)
\* that...' with the bibliography 'Smith, J. (2023). Title. Journal, 1(1), 1-10.', the
\* extraction gave exactly one citation, parenthetical, with normalized authors Smith and
\* year 2023, and its result is matched to the only entry with confidence at least 0.8
\* and has status valid
C5_ScenarioA ==
    /\ wf_step = "validated"
    /\ sections = Tree(Text(<<"Research shows (Smith, 2023) that...">>), Absent,
                       Text(<<"Smith, J. (2023). Title. Journal, 1(1), 1-10.">>), Absent)
    => /\ Len(ex_citations) = 1
       /\ ex_citations[1].type = "parenthetical"
       /\ ex_citations[1].raw_text = "(Smith, 2023)"
       /\ ex_citations[1].normalized = [authors |-> <<"Smith">>, year |-> "2023"]
       /\ v_citations = ex_citations
       /\ Len(bp_entries) = 1
       /\ Len(v_results) = 1
       /\ v_results[1].citation_id = ex_citations[1].id
       /\ v_results[1].matched_bibliography = bp_entries[1].id
       /\ ~RatGt(<<4, 5>>, v_results[1].confidence)
       /\ v_results[1].status = "valid"

\* the three steps ran on that document and bibliography and the report counts one
\* valid citation
C5_Witness ==
    /\ wf_step = "validated"
    /\ sections = Tree(Text(<<"Research shows (Smith, 2023) that...">>), Absent,
                       Text(<<"Smith, J. (2023). Title. Journal, 1(1), 1-10.">>), Absent)
    /\ bp_stats.total_entries = 1
    /\ v_report[1].total_citations = 1
    /\ v_report[1].valid_citations = 1

\* C11: in every result validate_all produced, matched_bibliography is null or the id of
\* an entry of the loaded bibliography, whatever the citation's shape
C11_MatchedIsEntryId ==
    \A j \in 1..Len(v_results) :
        \/ v_results[j].matched_bibliography = None
        \/ \E e \in 1..Len(v_bibliography) :
               v_bibliography[e].id = v_results[j].matched_bibliography

\* C12: whenever validate_all has run, the result of every citation whose normalized
\* payload has a 'multiple' list is matched, with confidence 0.9, exactly if
\* _find_single_match resolves every one of its sub-citations on its own authors and
\* year; if one of them does not resolve the result has no match and confidence 0
C12_MultipleAllOrNothing ==
    [][v_calls' = v_calls + 1
       => \A j \in 1..Len(v_results') :
              LET normalized == Get(v_citations'[j], "normalized", << >>)
                  resolves(sub) ==
                      _find_single_match(v_index', v_bibliography', Get(sub, "authors", << >>),
                                         Get(sub, "year", ""))[1] # None
                  every == \A k \in 1..Len(normalized.multiple) : resolves(normalized.multiple[k])
              IN "multiple" \in DOMAIN normalized
                 => /\ every => /\ v_results'[j].matched_bibliography # None
                                /\ v_results'[j].confidence = <<9, 10>>
                    /\ ~every => /\ v_results'[j].matched_bibliography = None
                                 /\ v_results'[j].confidence = Zero]_vars

\* validate_all ran on two multiple citations: both sub-citations of the first resolve,
\* and of the second's two sub-citations only one does
C12_Witness ==
    /\ v_calls > 0
    /\ Len(v_results) = 2
    /\ \A j \in 1..2 : "multiple" \in DOMAIN v_citations[j].normalized
    /\ Len(v_citations[1].normalized.multiple) = 2
    /\ v_results[1].matched_bibliography # None
    /\ v_results[1].confidence = <<9, 10>>
    /\ Len(v_citations[2].normalized.multiple) = 2
    /\ v_results[2].matched_bibliography = None
    /\ _find_single_match(v_index, v_bibliography, v_citations[2].normalized.multiple[1].authors,
                          v_citations[2].normalized.multiple[1].year)[1] # None

\* C13: whenever validate_all returns, the report's duplicate_citations lists an
\* author-year key (first normalized author, '_', normalized year) if and only if more
\* than five of the loaded citations carry it, lists it once, and gives as its count the
\* number of citations carrying it
C13_DuplicateCitations ==
    [][v_calls' = v_calls + 1 /\ v_raised' = ""
       => LET key(j) ==
                  Get(Get(v_citations'[j], "normalized", << >>), "authors", <<"Unknown">>)[1]
                  \o "_" \o Get(Get(v_citations'[j], "normalized", << >>), "year", "Unknown")
              carrying(k) == {j \in 1..Len(v_citations') : key(j) = k}
              listed == v_report'[1].duplicate_citations
          IN /\ \A j \in 1..Len(v_citations') :
                    (\E d \in 1..Len(listed) : listed[d].citation_key = key(j))
                    <=> Cardinality(carrying(key(j))) > 5
             /\ \A d \in 1..Len(listed) :
                    /\ listed[d].count = Cardinality(carrying(listed[d].citation_key))
                    /\ listed[d].count > 5
                    /\ \A e \in 1..Len(listed) :
                           listed[e].citation_key = listed[d].citation_key => e = d]_vars

\* validate_all returned for six citations of Smith_2023 and five of Jones_2022: the
\* report lists Smith_2023 with count 6 and nothing else
C13_Witness ==
    /\ v_calls > 0
    /\ v_raised = ""
    /\ Len(v_citations) = 11
    /\ Cardinality({j \in 1..Len(v_citations) :
                       v_citations[j].normalized = [authors |-> <<"Jones">>, year |-> "2022"]}) = 5
    /\ v_report # << >>
    /\ v_report[1].duplicate_citations
         = << [citation_key |-> "Smith_2023", count |-> 6,
               suggestion |-> "Consider using narrative citations for variety"] >>

\* C14: a validation step run while citations.json or bibliography.json is missing ends
\* with load_data's FileNotFoundError: the step fails, and the validator holds no result
\* and returned no report; with both files present load_data raises no FileNotFoundError
C14_MissingOutputIsFatal ==
    [][vVars' # vVars
       => IF citations_json = << >> \/ bibliography_json = << >>
          THEN /\ v_raised' = "FileNotFoundError"
               /\ v_results' = << >>
               /\ v_report' = << >>
               /\ v_calls' = 0
               /\ wf_step' = "failed"
          ELSE v_raised' # "FileNotFoundError"]_vars

\* the validation step failed on a missing bibliography.json after the extraction step
\* had written citations.json with citations in it
C14_Witness ==
    /\ wf_step = "failed"
    /\ v_raised = "FileNotFoundError"
    /\ citations_json # << >>
    /\ bibliography_json = << >>
    /\ v_citations # << >>
    /\ v_results = << >>
    /\ v_report = << >>

\* C15: every call of validate_all, whatever the citations and the bibliography loaded
\* (a citation with an empty normalized authors list among them), returns: it raises
\* nothing, gives a report, and leaves one result per loaded citation
C15_ValidateAllAlwaysReturns ==
    [][v_calls' = v_calls + 1
       => /\ v_raised' = ""
          /\ v_report' # << >>
          /\ Len(v_results') = Len(v_citations')]_vars

\* C16: a load_and_parse that returns leaves one entry for every non-blank, non-heading
\* line of every readable file, in order, whether or not a parser raised on a line: each
\* entry is either the ordinary parse of its line or, where the parser raised, an entry
\* of that line whose first error is the parsing-error message and whose
\* validation_status is invalid
C16_ParserFaultContained ==
    [][bp_stats'.total_entries > bp_stats.total_entries =>
        LET OfFile(file) ==
                IF ~file.readable THEN << >>
                ELSE SelectSeq([n \in 1..Len(file.lines) |-> <<n, Strip(file.lines[n])>>],
                               LAMBDA l : l[2] # "" /\ ~StartsWith(l[2], "#"))
            lines == Flatten([f \in 1..Len(bib_glob) |-> OfFile(sections.files[bib_glob[f]])])
            Faulted(entry, l) ==
                /\ entry.raw_text = l[2]
                /\ entry.line_number = l[1]
                /\ entry.errors # << >>
                /\ entry.errors[1] = "Parsing error: fault"
                /\ entry.validation_status = "invalid"
        IN /\ Len(bp_entries') = Len(lines)
           /\ \A j \in 1..Len(lines) :
                  \/ bp_entries'[j] = _parse_entry(lines[j][2], lines[j][1], 0)
                  \/ Faulted(bp_entries'[j], lines[j])]_vars

\* C16 witness: the parser raised on the first of two lines, and the second line was
\* still parsed in full, its only defect the missing final period
C16_Witness ==
    /\ Len(bp_entries) = 2
    /\ bp_entries[1].errors # << >>
    /\ bp_entries[1].errors[1] = "Parsing error: fault"
    /\ bp_entries[1].validation_status = "invalid"
    /\ bp_entries[2].line_number = 2
    /\ bp_entries[2].errors = <<"Entry should end with a period">>
    /\ bp_entries[2].validation_status = "warning"
    /\ "year" \in DOMAIN bp_entries[2].parsed
    /\ bp_entries[2].parsed.year = "2023"

\* C17: extract_from_file on a file that is missing or cannot be read returns no citation
\* and leaves the stats as they were; on a file it can read it returns what the rules
\* that compile yield, a rule whose pattern does not compile changing nothing; and
\* process_all_sections returns, and keeps, the citations of every file it can read, in
\* sorted order, whatever files beside them it cannot read
C17_FailuresSkipped ==
    [][/\ ex_last'.call = "extract_from_file" =>
            LET file == sections.files[ex_last'.file]
            IN IF ~file.exists \/ ~file.readable
               THEN ex_last'.citations = << >> /\ ex_stats' = ex_stats
               ELSE ex_last'.citations = ExtractResult(ex_last'.file, file)
       /\ ex_last'.call = "process_all_sections" =>
            LET readable == SelectSeq(Glob(sections, ContentNames \cup BibNames),
                                      LAMBDA n : sections.files[n].readable)
                found == Flatten([j \in 1..Len(readable) |->
                                     ExtractResult(readable[j], sections.files[readable[j]])])
            IN /\ ex_last'.citations = found
               /\ ex_citations' = found
               /\ ex_stats'.files_processed = ex_stats.files_processed + Len(readable)
      ]_vars

\* C17 witness: the first file cannot be read; process_all_sections has returned the
\* citations of the second all the same; and an extraction of the second file with an
\* invalid rule between the parenthetical and the narrative rules has returned citations
\* of both kinds
C17_Witness ==
    /\ sections.files[AllNames[1]] = Unreadable
    /\ ex_citations # << >>
    /\ ex_last.call = "extract_from_file"
    /\ ex_last.file = AllNames[2]
    /\ ex_last.invalid = 1
    /\ ex_last.citations = ex_citations
    /\ \E j \in 1..Len(ex_last.citations) : ex_last.citations[j].type = "parenthetical"
    /\ \E j \in 1..Len(ex_last.citations) : ex_last.citations[j].type = "narrative"
    /\ ex_stats.files_processed = 2

\* C18: in the index load_and_parse builds, by_year[y] lists the entries whose parsed
\* year is y, by_author[n] the entries with an author of last name n, and
\* by_author_year[n_y] the entries with both, each such entry once and no other entry;
\* every such year, name and pair is a key; so an entry without year is in no by_year
\* and no by_author_year list
C18_IndexExact ==
    bp_index # << >> =>
        LET N == Len(bp_entries)
            Year(j) == Get(bp_entries[j].parsed, "year", None)
            HasYear(j) == Year(j) \notin {None, ""}
            Names(j) == LET authors == Get(bp_entries[j].parsed, "authors", << >>)
                        IN {Get(authors[a], "last_name", "") : a \in 1..Len(authors)} \ {""}
            Exactly(list, Qualifies(_)) ==
                /\ \A i \in 1..Len(list) : \E j \in 1..N : Qualifies(j) /\ bp_entries[j] = list[i]
                /\ \A j \in 1..N :
                       Qualifies(j) =>
                           Cardinality({i \in 1..Len(list) : list[i] = bp_entries[j]})
                               = Cardinality({h \in 1..N : Qualifies(h)
                                                           /\ bp_entries[h] = bp_entries[j]})
            ByYear(y) == LET Q(j) == HasYear(j) /\ Year(j) = y
                         IN Exactly(bp_index.by_year[y], Q)
            ByAuthor(n) == LET Q(j) == n \in Names(j)
                           IN Exactly(bp_index.by_author[n], Q)
            ByAuthorYear(k) ==
                LET Q(j) == HasYear(j) /\ \E n \in Names(j) : k = n \o "_" \o Year(j)
                IN Exactly(bp_index.by_author_year[k], Q)
        IN /\ \A y \in DOMAIN bp_index.by_year : ByYear(y)
           /\ \A n \in DOMAIN bp_index.by_author : ByAuthor(n)
           /\ \A k \in DOMAIN bp_index.by_author_year : ByAuthorYear(k)
           /\ \A j \in 1..N :
                  /\ HasYear(j) => Year(j) \in DOMAIN bp_index.by_year
                  /\ \A n \in Names(j) :
                         /\ n \in DOMAIN bp_index.by_author
                         /\ HasYear(j) => (n \o "_" \o Year(j)) \in DOMAIN bp_index.by_author_year

\* C19: for every author of a loaded citation and every last name of a loaded
\* bibliography entry that are the same name up to letter case and diacritics,
\* _calculate_similarity of the two is exactly 1.0
C19_SameNameSimilarityOne ==
    LET Plain(c) ==
            LET lower == ToLower(c)
                marked == "áéíóúñ"
                bare == "aeioun"
            IN IF \E i \in 1..Len(marked) : CharAt(marked, i) = lower
               THEN CharAt(bare, CHOOSE i \in 1..Len(marked) : CharAt(marked, i) = lower)
               ELSE lower
        Folded(name) == [i \in 1..Len(name) |-> Plain(CharAt(name, i))]
        CitationAuthors ==
            UNION {LET authors == Get(v_citations[j].normalized, "authors", << >>)
                   IN {authors[a] : a \in 1..Len(authors)} : j \in 1..Len(v_citations)}
        EntryNames ==
            UNION {LET authors == Get(v_bibliography[e].parsed, "authors", << >>)
                   IN {authors[a].last_name : a \in 1..Len(authors)} : e \in 1..Len(v_bibliography)}
    IN \A name \in CitationAuthors, copy \in EntryNames :
           Folded(name) = Folded(copy) => _calculate_similarity(name, copy) = One

\* C20: of the citations extract_from_file returns, every parenthetical or narrative one
\* whose text carries 'et al.' has two normalized authors, the first author and then
\* 'et al.'; and in a multiple citation whose pieces are all parsed, every sub-citation
\* made of a piece carrying 'et al.' has the same
C20_EtAlKept ==
    \A j \in 1..Len(ex_last.citations) :
        LET c == ex_last.citations[j]
            Marked(authors) == Len(authors) = 2 /\ authors[1] # "et al." /\ authors[2] = "et al."
            pieces == ReSplit(Lit(";"), c.raw_text)
        IN /\ c.type \in {"parenthetical", "narrative"} /\ Contains(c.raw_text, " et al.")
                => "authors" \in DOMAIN c.normalized /\ Marked(c.normalized.authors)
           /\ c.type = "multiple_citations" /\ Len(c.normalized.multiple) = Len(pieces)
                => \A s \in 1..Len(pieces) :
                       Contains(pieces[s], " et al.") => Marked(c.normalized.multiple[s].authors)

\* C21: for every authors and year that matching looks up for a loaded citation, an entry
\* _find_single_match returns has the searched year as its parsed year, and either it is
\* indexed under the key (normalized author, '_', year) of one of the authors, or no such
\* key of any of the authors is in the index and the entry's author similarity is above
\* 0.7 and the largest of all entries of that year
C21_SingleMatchSound ==
    \A j \in 1..Len(v_citations) :
        LET normalized == Get(v_citations[j], "normalized", << >>)
            lookups == IF "multiple" \in DOMAIN normalized
                       THEN {<<Get(normalized.multiple[s], "authors", << >>),
                               Get(normalized.multiple[s], "year", "")>> :
                                 s \in 1..Len(normalized.multiple)}
                       ELSE IF Get(v_citations[j], "type", None) = "secondary"
                       THEN {<<<<Get(normalized, "cited_in_author", "")>>,
                               Get(normalized, "cited_in_year", "")>>}
                       ELSE {<<Get(normalized, "authors", << >>), Get(normalized, "year", "")>>}
            Sound(authors, year, match_id) ==
                LET keys == {V_normalize_text(authors[a]) \o "_" \o year :
                                a \in {a \in 1..Len(authors) : authors[a] # "et al."}}
                    hits == {k \in keys : k \in DOMAIN v_index}
                    Similarity(entry) == _fuzzy_match_authors(authors, Get(entry.parsed, "authors", << >>))
                    same_year == {e \in 1..Len(v_bibliography) :
                                     Get(v_bibliography[e].parsed, "year", "") = year}
                IN \E e \in same_year :
                       /\ v_bibliography[e].id = match_id
                       /\ \/ \E k \in hits : \E i \in 1..Len(v_index[k]) :
                                 v_index[k][i] = v_bibliography[e]
                          \/ /\ hits = {}
                             /\ RatGt(Similarity(v_bibliography[e]), <<7, 10>>)
                             /\ \A o \in same_year :
                                    ~RatGt(Similarity(v_bibliography[o]),
                                           Similarity(v_bibliography[e]))
            Found(authors, match_id) == match_id = None \/ Sound(authors[1], authors[2], match_id)
        IN \A lookup \in lookups :
               lookup[1] # << >> /\ lookup[2] # "" =>
                   Found(lookup, _find_single_match(v_index, v_bibliography,
                                                    lookup[1], lookup[2])[1])

\* C22: for the authors of every loaded citation or sub-citation and the authors of every
\* loaded entry (or of none), _fuzzy_match_authors is between 0 and 1; it is 0 when either
\* list is empty or the citation holds nothing but 'et al.'; with an 'et al.' marker among
\* the citation's authors it is the similarity of the first citation author and the first
\* entry author; otherwise it is the fraction of the citation authors whose best
\* similarity to an entry author is above 0.8.  And every confidence in the results is
\* between 0 and 1
C22_FuzzyMatchAuthors ==
    LET OfCitation(normalized) ==
            IF "multiple" \in DOMAIN normalized
            THEN {Get(normalized.multiple[s], "authors", << >>) : s \in 1..Len(normalized.multiple)}
            ELSE {Get(normalized, "authors", << >>)}
        citation_lists == UNION {OfCitation(Get(v_citations[j], "normalized", << >>)) :
                                    j \in 1..Len(v_citations)}
        entry_lists == {Get(v_bibliography[e].parsed, "authors", << >>) :
                           e \in 1..Len(v_bibliography)} \cup {<< >>}
        IsMarker(author) == \/ ToLower(author) \in {"et al.", "et al"}
                            \/ EndsWith(ToLower(author), " et al.")
                            \/ EndsWith(ToLower(author), " et al")
        InUnit(x) == ~RatGt(Zero, x) /\ ~RatGt(x, One)
        Sim(author, bib_author) == _calculate_similarity(author, Get(bib_author, "last_name", ""))
        Expected(authors, names, bib_authors) ==
            IF names = << >> \/ bib_authors = << >> THEN Zero
            ELSE IF \E a \in 1..Len(authors) : IsMarker(authors[a])
            THEN Sim(names[1], bib_authors[1])
            ELSE Rat(Cardinality({a \in 1..Len(names) :
                                    \E b \in 1..Len(bib_authors) :
                                        RatGt(Sim(names[a], bib_authors[b]), <<4, 5>>)}),
                     Len(names))
        Right(value, expected) == value = expected /\ InUnit(value)
    IN /\ \A authors \in citation_lists, bib_authors \in entry_lists :
              Right(_fuzzy_match_authors(authors, bib_authors),
                    Expected(authors, SelectSeq(authors, LAMBDA a : a # "et al."), bib_authors))
       /\ \A j \in 1..Len(v_results) : InUnit(v_results[j].confidence)

\* C23: the type of every entry is the type of the first test its line satisfies, the
\* tests taken in the order dissertation marker, thesis marker, journal pattern (an
\* issue in parentheses followed by pages, or a volume with an issue in parentheses),
\* ' In ' or ' En ', 'retrieved from' or 'recuperado de', italics without an issue number
\* (a number in parentheses right after the volume number), and unknown when no test is
\* satisfied; so it is one of seven types
C23_FirstTestWins ==
    \A j \in 1..Len(bp_entries) :
        LET text == bp_entries[j].raw_text
            lower == ToLower(text)
            digits == Plus(Cls(Digit))
            issue == Cat(<<Lit("("), digits, Lit(")")>>)
            Has(re) == Search(re, 0, text) # << >>
            tests ==
                << <<Contains(lower, "[doctoral dissertation]") \/ Contains(lower, "[tesis doctoral]"),
                     "dissertation">>,
                   <<Contains(lower, "[master") \/ Contains(lower, "[tesis de"), "thesis">>,
                   <<\/ Has(Cat(<<issue, Lit(","), Spaces0, digits, Lit("-"), digits>>))
                     \/ Has(Cat(<<Lit(","), Spaces0, digits, issue>>)), "journal_article">>,
                   <<Contains(text, " In ") \/ Contains(text, " En "), "book_chapter">>,
                   <<Contains(lower, "retrieved from") \/ Contains(lower, "recuperado de"),
                     "web_resource">>,
                   <<Has(Cat(<<Lit("_"), Plus(NCls({"_"})), Lit("_")>>))
                     /\ ~Has(Cat(<<digits, issue>>)), "book">>,
                   <<TRUE, "unknown">> >>
            first == CHOOSE k \in 1..Len(tests) : tests[k][1] /\ \A h \in 1..(k - 1) : ~tests[h][1]
        IN /\ bp_entries[j].type = tests[first][2]
           /\ bp_entries[j].type \in {"dissertation", "thesis", "journal_article", "book_chapter",
                                       "web_resource", "book", "unknown"}

\* C24: every item of the report's missing_bibliography made for a plain or a secondary
\* citation has in searched_for the authors and the year the matching looked up: the
\* normalized authors and year of a plain citation, the cited-in author and year of a
\* secondary one
C24_SearchedForIsLookedUp ==
    v_report # << >> =>
        \A m \in 1..Len(v_report[1].missing_bibliography) :
            LET item == v_report[1].missing_bibliography[m]
                normalized == Get(item.citation, "normalized", << >>)
                looked_up ==
                    IF Get(item.citation, "type", None) = "secondary"
                    THEN [authors |-> <<Get(normalized, "cited_in_author", "")>>,
                          year |-> Get(normalized, "cited_in_year", "")]
                    ELSE [authors |-> Get(normalized, "authors", << >>),
                          year |-> Get(normalized, "year", "")]
            IN "multiple" \notin DOMAIN normalized => item.searched_for = looked_up

\* C25: a personal communication among the validated citations has no result of status
\* invalid and is in no item of the report's missing_bibliography
C25_PersonalCommunicationExempt ==
    \A j \in 1..Len(v_results) :
        j <= Len(v_citations) /\ Get(v_citations[j], "type", None) = "personal_communication" =>
            /\ v_results[j].status # "invalid"
            /\ v_report # << >> =>
                   \A m \in 1..Len(v_report[1].missing_bibliography) :
                       v_report[1].missing_bibliography[m].citation # v_citations[j]

(***************************************************************************)
(* run_complete_workflow: the five steps one after the other.  wf_step is  *)
(* the outcome of the step before, and what the workflow returned once it  *)
(* is finalized.  The agent and the report generator are known by their    *)
(* outcome only                                                            *)
(***************************************************************************)
\* an analysis step that ends the workflow when the agent fails
RunAgentAnalysisFatal(use_agent, success) ==
    /\ wf_step' = IF ~use_agent THEN "agent_skipped" ELSE IF success THEN "analysed" ELSE "failed"
    /\ UNCHANGED <<fsVars, exVars, bpVars, jsonVars, vVars>>

\* run_agent_analysis: None without the agent, else the success of the analysis
RunAgentAnalysis(use_agent, success) ==
    /\ wf_step' = IF ~use_agent THEN "agent_skipped"
                  ELSE IF success THEN "analysed" ELSE "agent_failed"
    /\ UNCHANGED <<fsVars, exVars, bpVars, jsonVars, vVars>>

\* generate_reports: the success of the report generator
GenerateReports(success) ==
    /\ wf_step' = IF success THEN "reported" ELSE "report_failed"
    /\ UNCHANGED <<fsVars, exVars, bpVars, jsonVars, vVars>>

\* _finalize_workflow(success, workflow_results): what run_complete_workflow returns
_finalize_workflow(success) ==
    /\ wf_step' = IF success THEN "returned True" ELSE "returned False"
    /\ UNCHANGED <<fsVars, exVars, bpVars, jsonVars, vVars>>

run_complete_workflow ==
    \/ wf_step = "start" /\ RunExtraction
    \/ wf_step = "extracted" /\ RunBibliographyProcessing
    \/ wf_step = "processed" /\ RunValidation
    \/ wf_step = "validated" /\ \E use_agent, success \in BOOLEAN : RunAgentAnalysis(use_agent, success)
    \/ wf_step \in {"agent_skipped", "analysed", "agent_failed"}
          /\ \E success \in BOOLEAN : GenerateReports(success)
    \/ wf_step \in {"failed", "reported", "report_failed"} /\ _finalize_workflow(wf_step = "reported")

\* every step is a call that returns: until run_complete_workflow has returned, the
\* workflow does not stay where it is
StepReturns ==
    /\ wf_step \notin {"returned True", "returned False"}
    /\ wf_step' \in {"extracted", "processed", "validated", "failed", "agent_skipped", "analysed",
                     "agent_failed", "reported", "report_failed", "returned True", "returned False"}

SpecWorkflow == Init /\ [][run_complete_workflow]_vars /\ WF_wf_step(StepReturns)

\* C26: in run_complete_workflow the steps run in the order extraction, bibliography
\* processing, validation, agent analysis, report generation, none of them twice;
\* extraction changes the extractor and citations.json only as the first step, the
\* bibliography step runs only after an extraction that succeeded, validation only after
\* a bibliography step that succeeded, both files written in this run; after a failure
\* of one of the three the workflow runs no step and returns False; and after a failed
\* agent analysis the reports are generated, and the workflow returns what they say
C26_WorkflowOrder ==
    /\ [][/\ wf_step' # wf_step =>
               <<wf_step, wf_step'>> \in
                   {<<"start", "extracted">>, <<"start", "failed">>,
                    <<"extracted", "processed">>, <<"extracted", "failed">>,
                    <<"processed", "validated">>, <<"processed", "failed">>,
                    <<"validated", "agent_skipped">>, <<"validated", "analysed">>,
                    <<"validated", "agent_failed">>,
                    <<"agent_skipped", "reported">>, <<"agent_skipped", "report_failed">>,
                    <<"analysed", "reported">>, <<"analysed", "report_failed">>,
                    <<"agent_failed", "reported">>, <<"agent_failed", "report_failed">>,
                    <<"failed", "returned False">>, <<"report_failed", "returned False">>,
                    <<"reported", "returned True">>}
          /\ <<exVars, citations_json>>' # <<exVars, citations_json>> => wf_step = "start"
          /\ <<bpVars, bibliography_json>>' # <<bpVars, bibliography_json>> => wf_step = "extracted"
          /\ vVars' # vVars =>
                 wf_step = "processed" /\ citations_json # << >> /\ bibliography_json # << >>
          /\ wf_step = "failed" =>
                 UNCHANGED <<exVars, bpVars, jsonVars, vVars>> /\ wf_step' = "returned False"
         ]_vars
    /\ (wf_step = "agent_failed") ~> (wf_step \in {"reported", "report_failed"})
    /\ (wf_step = "start") ~> (wf_step \in {"returned True", "returned False"})

\* C26 witness: the agent analysis has failed after a validation that produced a report
\* from the two files of this run
C26_Witness ==
    /\ wf_step = "agent_failed"
    /\ v_report # << >>
    /\ v_calls = 1
    /\ citations_json # << >>
    /\ bibliography_json # << >>

\* C27: a result of validate_all that is matched to a bibliography entry never has the
\* status invalid, however many format issues the citation has; when
\* validate_citation_format calls the citation invalid (more than two issues) the
\* result's status is warning
C27_MatchedNeverInvalid ==
    \A j \in 1..Len(v_results) :
        v_results[j].matched_bibliography # None
        => /\ v_results[j].status \in {"valid", "warning"}
           /\ \A k \in 1..Len(v_results[j].issues) : v_results[j].issues[k].severity = "warning"
           /\ validate_citation_format(v_citations[j])[1] = "invalid"
              => v_results[j].status = "warning"

\* a citation with three format issues, invalid for validate_citation_format, was
\* matched to an entry with full confidence and got the status warning
C27_Witness ==
    \E j \in 1..Len(v_results) :
        /\ v_results[j].matched_bibliography # None
        /\ v_results[j].confidence = One
        /\ validate_citation_format(v_citations[j]) =
               <<"invalid", <<"Parenthetical citation missing proper parentheses",
                              "Use '&' instead of 'and' in parenthetical citations",
                              "'et al.' should include a period">>>>
        /\ Len(v_results[j].issues) = 3
        /\ v_results[j].status = "warning"

\* C28: the entries one load_and_parse call returns have pairwise distinct ids, also
\* when they come from several files
C28_EntryIdsDistinct ==
    \A j, k \in 1..Len(bp_entries) : j # k => bp_entries[j].id # bp_entries[k].id

\* C29: after every load_and_parse that completed, the first on a processor or a later
\* one, stats.total_entries is the number of entries the processor holds and
\* valid_entries + invalid_entries = total_entries
C29_StatsCountEntries ==
    /\ bp_stats.total_entries = Len(bp_entries)
    /\ bp_stats.valid_entries + bp_stats.invalid_entries = bp_stats.total_entries

====
